---- MODULE Spec2Model ----
(***************************************************************************)
(* The Nutrisnap client against its remote record store.                   *)
(*                                                                         *)
(* Mission engine (MissionsScreen): loadData, checkAndGenerateMissions,    *)
(* generateDailyMissions, generateWeeklyMissions, updateMissionProgress,   *)
(* over the tables users and missions.                                     *)
(* Dashboard (HomeScreen): loadDashboardData, over the tables foods,       *)
(* exercises and weight_records.                                           *)
(* Weight trend (WeightTrackingScreen): loadData and addWeightRecord, over *)
(* weight_records and users.                                               *)
(* Exercise forms (AddExerciseScreen, EditExerciseScreen): the fields, the *)
(* stopwatch, the calorie effects, saveExercise and updateExercise.        *)
(* Day lists (JournalScreen, ExerciseScreen): the selected date and the    *)
(* loads it starts.  Profile (ProfileScreen): loadUserData, handleLogout.  *)
(* Store (StoreScreen): handleActivatePremium, over premium_codes, users.  *)
(*                                                                         *)
(* Every `await` of a remote call is one step: the store operation and the *)
(* synchronous continuation up to the next await happen together.  Async   *)
(* functions that call each other are frames of a per-task call stack.     *)
(* Time is an integer instant; TicksPerDay instants make a calendar day,   *)
(* and the local time zone is UTC.  A remote call either succeeds or       *)
(* answers { error } (the supabase client returns errors, it does not      *)
(* throw); a user is signed in.  The order of the fetched missions (the    *)
(* sort of loadData) is not represented: a mission is found by its id.     *)
(* A calendar date 'YYYY-MM-DD' is the number of its day; a text field is  *)
(* the sequence of its characters; arithmetic is exact.                    *)
(*                                                                         *)
(*   SpecGen   the Missions screen loads and generates missions while the  *)
(*             clock runs; calls can fail                                  *)
(*   SpecSeq   progress reports one after the other; calls can fail        *)
(*   SpecRace  overlapping progress reports; every call is answered        *)
(*   SpecDash  loadDashboardData over every small foods and exercises      *)
(*             table, the clock running; calls can fail                    *)
(*   SpecTrend the loads of HomeScreen and WeightTrackingScreen over every *)
(*             small weight_records table; calls can fail                  *)
(*   SpecForm  a user filling in and saving the exercise form              *)
(*   SpecList  a day list whose date is changed while loads are in flight  *)
(*   SpecProfile  sign-ins and logouts one after the other; calls can fail *)
(*   SpecStore two users activating premium with a code; calls can fail    *)
(*   SpecWeight  the add-weight modal and addWeightRecord beside the loads *)
(*             of WeightTrackingScreen; calls can fail                     *)
(***************************************************************************)
EXTENDS Integers, Sequences, FiniteSets, TLC

\* ------------------------------------------------------------------ bounds
MaxNow == 4             \* last instant the clock reaches
MaxFaults == 1          \* transient remote-call failures per behaviour
MaxCalls == 3           \* updateMissionProgress calls per behaviour, one after the other
MaxRaceCalls == 2       \* updateMissionProgress calls per behaviour, overlapping
MaxUpdId == 2           \* updateMissionProgress is called on mission ids 1..MaxUpdId
MaxDepth == 8           \* deepest chain of nested async calls explored
MaxMissions == 12       \* rows the missions table can hold

TicksPerDay == 2        \* instants per calendar day (0 = local midnight)
DaysPerWeek == 7

Updaters == {"u1", "u2"}          \* tasks that run updateMissionProgress
Tasks == {"focus"} \cup Updaters  \* "focus" runs loadData (focus / pull-to-refresh)

NoUser == "null"
TheUser == "user"

VARIABLES
  now,            \* the clock (new Date())
  dbPoints,       \* users.points of the user, in the store
  dbMissions,     \* missions table of the user; the row id is the index
  userId,         \* useState userId
  userPoints,     \* useState userPoints
  missions,       \* useState missions: the rows last fetched
  stack,          \* per task: the chain of suspended async calls, caller first
  faults,         \* transient failures so far
  insertOutage,   \* TRUE iff the missions table rejects every insert
  calls,          \* updateMissionProgress calls started so far
  run,            \* per task: bookkeeping of the operation in progress
  loads,          \* the last two finished loadData runs of task "focus"
  hist,           \* the last two finished updateMissionProgress calls
  credits,        \* per mission id: users.points writes that landed for it
  attempts,       \* per template: inserts attempted in the current focus run
  cgRet,          \* TRUE in the state right after checkAndGenerateMissions returned
  everOverlap,    \* TRUE once two operations have been in flight together
  dbFoods,        \* foods table of the user
  dbExercises,    \* exercises table of the user
  dbWeights,      \* weight_records table of the user
  dbCurrentWeight,\* users.currentWeight of the user
  home,           \* HomeScreen: its useState values and the position of loadDashboardData
  track,          \* WeightTrackingScreen: its useState values and the position of loadData
  form,           \* AddExerciseScreen / EditExerciseScreen: useState values, position of the save
  seen,           \* bookkeeping: what the last aggregation and the last save worked on
  journal,        \* JournalScreen / ExerciseScreen: useState values and the loads in flight
  profile,        \* ProfileScreen: useState values and the position of its handlers
  dbLogoutHistory,\* users.logoutHistory of the user
  premium,        \* per user: StoreScreen useState values, position of handleActivatePremium
  dbCode,         \* the row of the premium_codes table
  dbIsPremium     \* per user: users.isPremium

\* the Missions screen without the clock
missionVars == << dbPoints, dbMissions, userId, userPoints, missions, stack,
                  faults, insertOutage, calls, run, loads, hist, credits, attempts,
                  cgRet, everOverlap >>

\* the stores and screens other than the Missions screen
\* the journal, profile and store screens with their stores
moreVars == << journal, profile, dbLogoutHistory, premium, dbCode, dbIsPremium >>

appVars == << dbFoods, dbExercises, dbWeights, dbCurrentWeight, home, track, form, seen,
              moreVars >>

vars == << now, missionVars, appVars >>

\* --------------------------------------------------------------- templates
DailyTemplates ==
  << [title |-> "logFoodTwice",    type |-> "daily", points |-> 10, target |-> 2,
      progress |-> 0, completed |-> FALSE],
     [title |-> "logExerciseOnce", type |-> "daily", points |-> 15, target |-> 1,
      progress |-> 0, completed |-> FALSE],
     [title |-> "consumeFiber",    type |-> "daily", points |-> 20, target |-> 25,
      progress |-> 0, completed |-> FALSE] >>

WeeklyTemplates ==
  << [title |-> "burnCalories",  type |-> "weekly", points |-> 50, target |-> 1000,
      progress |-> 0, completed |-> FALSE],
     [title |-> "noFriedFood",   type |-> "weekly", points |-> 40, target |-> 3,
      progress |-> 0, completed |-> FALSE],
     [title |-> "proteinIntake", type |-> "weekly", points |-> 45, target |-> 50,
      progress |-> 0, completed |-> FALSE] >>

TemplatesOf(type) == IF type = "daily" THEN DailyTemplates ELSE WeeklyTemplates

Titles == {DailyTemplates[i].title : i \in 1..3} \cup {WeeklyTemplates[i].title : i \in 1..3}

\* -------------------------------------------------------------------- time
\* new Date(now.getFullYear(), now.getMonth(), now.getDate())
StartOfDay(t) == t - (t % TicksPerDay)

TomorrowSameTime(t) == t + TicksPerDay

\* new Date(now.getFullYear(), now.getMonth(), now.getDate() + 1)
Tomorrow(t) == StartOfDay(t) + TicksPerDay

\* new Date(now.getFullYear(), now.getMonth(), now.getDate() + 7)
NextWeek(t) == StartOfDay(t) + DaysPerWeek * TicksPerDay

\* ------------------------------------------------- checkAndGenerateMissions
ActiveOfTypeFlipped(ms, type, today) ==
  {i \in DOMAIN ms : ms[i].type = type /\ ms[i].expiresAt <= today}

\* currentMissions.filter(m => m.type === type && new Date(m.expiresAt) >= today)
ActiveOfType(ms, type, today) ==
  {i \in DOMAIN ms : ms[i].type = type /\ ms[i].expiresAt >= today}

\* the row built from a template by generateDailyMissions / generateWeeklyMissions
NewMission(tpl, exp, created) ==
  [title |-> tpl.title, type |-> tpl.type, points |-> tpl.points,
   target |-> tpl.target, progress |-> tpl.progress, completed |-> tpl.completed,
   expiresAt |-> exp, createdAt |-> created]

\* --------------------------------------------------- updateMissionProgress
\* const completed = newProgress >= mission.target
Completed(newProgress, target) == newProgress >= target

ShouldAwardUnguarded(completed, wasCompleted) == completed

ShouldAwardNegated(completed, wasCompleted) == completed /\ wasCompleted

\* if (completed && !mission.completed)
ShouldAward(completed, wasCompleted) == completed /\ ~wasCompleted

\* const newPoints = userPoints + mission.points
NewPoints(points, missionPoints) == points + missionPoints

\* ------------------------------------------------------------------ frames
LoadFrame(pc) == [fn |-> "loadData", pc |-> pc]
CheckFrame(pc, needWeekly) ==
  [fn |-> "checkAndGenerateMissions", pc |-> pc, needWeekly |-> needWeekly]
GenFrame(type, i, exp, created) ==
  [fn |-> "generateMissions", pc |-> "insert", type |-> type, i |-> i, exp |-> exp,
   created |-> created]

Push(s, f) == Append(s, f)
Pop(s) == SubSeq(s, 1, Len(s) - 1)
Top(s) == s[Len(s)]
SetTopPc(s, pc) == [s EXCEPT ![Len(s)].pc = pc]

\* checkAndGenerateMissions(userId, currentMissions), called by loadData whose
\* frame is the top of s: it runs up to its first await, or returns at once.
EnterCheck(s, cur, t) ==
  LET today == StartOfDay(t)
      needDaily == ActiveOfType(cur, "daily", today) = {}
      needWeekly == ActiveOfType(cur, "weekly", today) = {}
      ld == SetTopPc(s, "afterCheck")
  IN IF needDaily
       THEN Push(Push(ld, CheckFrame("afterDaily", needWeekly)),
                 GenFrame("daily", 1, Tomorrow(t), t))
     ELSE IF needWeekly
       THEN Push(Push(ld, CheckFrame("afterWeekly", FALSE)),
                 GenFrame("weekly", 1, NextWeek(t), t))
     ELSE SetTopPc(s, "getBadges")

EnterCheckReturns(cur, t) ==
  /\ ActiveOfType(cur, "daily", StartOfDay(t)) # {}
  /\ ActiveOfType(cur, "weekly", StartOfDay(t)) # {}

\* The callee on top of the stack has returned and was popped: the callers
\* resume, each up to its next await.
RECURSIVE Unwind(_, _)
Unwind(s, t) ==
  IF s = << >> THEN s
  ELSE LET f == Top(s) IN
    CASE f.fn = "generateMissions" -> Unwind(Pop(s), t)
      [] f.fn = "checkAndGenerateMissions" /\ f.pc = "afterDaily" /\ f.needWeekly ->
           Push(SetTopPc(s, "afterWeekly"), GenFrame("weekly", 1, NextWeek(t), t))
      [] f.fn = "checkAndGenerateMissions" /\ ~(f.pc = "afterDaily" /\ f.needWeekly) ->
           Unwind(Pop(s), t)
      [] f.fn = "loadData" -> SetTopPc(s, "getBadges")
      [] OTHER -> Unwind(Pop(s), t)   \* updateMissionProgress after its reload

\* TRUE iff a checkAndGenerateMissions frame returns while s unwinds
RECURSIVE UnwindReturnsCheck(_)
UnwindReturnsCheck(s) ==
  IF s = << >> THEN FALSE
  ELSE LET f == Top(s) IN
    CASE f.fn = "generateMissions" -> UnwindReturnsCheck(Pop(s))
      [] f.fn = "checkAndGenerateMissions" /\ f.pc = "afterDaily" /\ f.needWeekly -> FALSE
      [] f.fn = "checkAndGenerateMissions" /\ ~(f.pc = "afterDaily" /\ f.needWeekly) -> TRUE
      [] f.fn = "loadData" -> FALSE
      [] OTHER -> UnwindReturnsCheck(Pop(s))


UpdateFrame(mid, np, mission, points, uid) ==
  [fn |-> "updateMissionProgress", pc |-> "updateMission", mid |-> mid,
   newProgress |-> np, completed |-> Completed(np, mission.target),
   mission |-> mission, points |-> points, uid |-> uid]

\* ------------------------------------------------------------- bookkeeping
\* TRUE iff ms holds a daily and a weekly row that expire no earlier than the
\* start of the day of instant t
HasCurrent(ms, t) ==
  \A type \in {"daily", "weekly"} :
    \E i \in DOMAIN ms : ms[i].type = type /\ ~(ms[i].expiresAt < StartOfDay(t))

Idle == [kind |-> "idle", n0 |-> 0, f0 |-> 0, d0 |-> 0, solo |-> FALSE, ins |-> 0,
         mid |-> 0, hit |-> FALSE, prePts |-> 0, preDone |-> FALSE, prePr |-> 0,
         wfail |-> FALSE, awarded |-> FALSE, had |-> FALSE]

OthersIdle(t) == \A u \in Tasks \ {t} : stack[u] = << >>

\* run, after task t starts the operation recorded as r
RunStarted(t, r) ==
  [u \in Tasks |-> IF u = t THEN [r EXCEPT !.solo = OthersIdle(t)]
                   ELSE IF stack[u] # << >> THEN [run[u] EXCEPT !.solo = FALSE]
                   ELSE run[u]]

Last2(q) == IF Len(q) > 2 THEN SubSeq(q, Len(q) - 1, Len(q)) ELSE q

CountType(ms, type) == Cardinality({i \in DOMAIN ms : ms[i].type = type})

\* Task t moved to stack ns with run record r, the store now holding points
\* pts and rows ms after flt failures: the history once the operation is over.
Settle(t, ns, r, pts, ms, flt) ==
  /\ run' = [run EXCEPT ![t] = IF ns = << >> THEN Idle ELSE r]
  /\ loads' = IF ns = << >> /\ r.kind = "load"
                THEN Last2(Append(loads,
                       [n0 |-> r.n0, n1 |-> Len(ms), ins |-> r.ins,
                        clean |-> flt = r.f0 /\ ~insertOutage, solo |-> r.solo,
                        d0 |-> r.d0, d1 |-> StartOfDay(now),
                        gen |-> HasCurrent(ms, now),
                        daily |-> CountType(ms, "daily"),
                        weekly |-> CountType(ms, "weekly")]))
                ELSE loads
  /\ hist' = IF ns = << >> /\ r.kind = "update"
               THEN Last2(Append(hist,
                      [mid |-> r.mid, hit |-> r.hit, prePts |-> r.prePts,
                       postPts |-> pts, preDone |-> r.preDone,
                       postDone |-> ms[r.mid].completed, prePr |-> r.prePr,
                       postPr |-> ms[r.mid].progress, pts |-> ms[r.mid].points,
                       f0 |-> r.f0, f1 |-> flt, solo |-> r.solo, wfail |-> r.wfail]))
               ELSE hist

\* ============================================== HomeScreen: loadDashboardData
MaxDashRows == 2        \* rows of the foods and exercises tables together
MaxWeights == 3         \* rows of the weight_records table

SeriesLength == 7       \* Array.from({ length: 7 }, ...)
MacroWindowDays == 7    \* sevenDaysAgo.setDate(sevenDaysAgo.getDate() - 7)
MacroDivisor == 7       \* last7DaysFoods.length > 0 ? 7 : 0

\* A numeric column of a fetched row holds a number n, written << n >>, or
\* JSON null, written << >> (select('*') answers every column of the table).
Null == << >>

ToNumberNullIsOne(x) == IF x = Null THEN 1 ELSE x[1]

\* the number the operand x of `sum + x` stands for: null counts as +0
ToNumber(x) == IF x = Null THEN 0 ELSE x[1]

\* rows.reduce((sum, row) => sum + row[f], 0), over the first i rows
RECURSIVE Reduce(_, _, _)
Reduce(rows, f, i) ==
  IF i = 0 THEN 0 ELSE Reduce(rows, f, i - 1) + ToNumber(rows[i][f])

Total(rows, f) == Reduce(rows, f, Len(rows))

\* new Date().toISOString().split('T')[0]: the UTC calendar date of instant t
UtcDate(t) == t \div TicksPerDay

\* new Date(food.date): the instant of UTC midnight of a calendar date
DateInstant(d) == d * TicksPerDay

\* data.filter(row => row.date === date)
Dated(rows, date) == SelectSeq(rows, LAMBDA r : r.date = date)

CalorieStatusSwapped(caloriesIn, caloriesOut) ==
  IF caloriesIn >= caloriesOut THEN "surplus" ELSE "deficit"

\* totalCaloriesIn > totalCaloriesOut ? 'surplus' : 'deficit'
CalorieStatus(caloriesIn, caloriesOut) ==
  IF caloriesIn > caloriesOut THEN "surplus" ELSE "deficit"

Last7DaysNewestFirst(t) ==
  [k \in 1..SeriesLength |-> UtcDate(t - (k - 1) * TicksPerDay)]

\* Array.from({ length: 7 }, (_, i) => date of (now - i days)).reverse()
Last7Days(t) ==
  [k \in 1..SeriesLength |-> UtcDate(t - (SeriesLength - k) * TicksPerDay)]

\* last7Days.map(date => sum of f over the rows of that date)
WeeklySeries(rows, f, t) ==
  [k \in 1..SeriesLength |-> Total(Dated(rows, Last7Days(t)[k]), f)]

\* sevenDaysAgo: new Date() moved back by 7 days
SevenDaysAgo(t) == t - MacroWindowDays * TicksPerDay

\* foodData.filter(food => new Date(food.date) >= sevenDaysAgo)
Last7DaysFoods(rows, t) ==
  SelectSeq(rows, LAMBDA r : DateInstant(r.date) >= SevenDaysAgo(t))

\* Math.max(1, last7DaysFoods.length > 0 ? 7 : 0)
DaysCount(rows) ==
  LET n == IF Len(rows) > 0 THEN MacroDivisor ELSE 0 IN IF n > 1 THEN n ELSE 1

\* Math.round(n / d) for a divisor d > 0: halves go up
Round(n, d) == (2 * n + d) \div (2 * d)

\* Math.round(total of f / daysCount)
MacroAverage(rows, f, t) ==
  Round(Total(Last7DaysFoods(rows, t), f), DaysCount(Last7DaysFoods(rows, t)))

\* --------------------------------------------------------------- weight trend
\* s is sorted newest first: r goes behind the rows that are not older than it
InsertByDate(s, r) ==
  LET k == Cardinality({i \in DOMAIN s : s[i].date >= r.date})
  IN SubSeq(s, 1, k) \o << r >> \o SubSeq(s, k + 1, Len(s))

\* [...weightData].sort((a, b) => new Date(b.date).getTime() - new Date(a.date).getTime())
RECURSIVE SortNewestFirst(_)
SortNewestFirst(rows) ==
  IF rows = << >> THEN << >>
  ELSE InsertByDate(SortNewestFirst(SubSeq(rows, 1, Len(rows) - 1)), rows[Len(rows)])

TrendOfOldest(sorted) ==
  IF sorted[1].weight < sorted[Len(sorted)].weight THEN "decreasing"
  ELSE IF sorted[1].weight > sorted[Len(sorted)].weight THEN "increasing"
  ELSE "stagnant"

\* latestWeight = sorted[0].weight, previousWeight = sorted[1].weight;
\* the if / else if / else that picks the trend
TrendOf(sorted) ==
  IF sorted[1].weight < sorted[2].weight THEN "decreasing"
  ELSE IF sorted[1].weight > sorted[2].weight THEN "increasing"
  ELSE "stagnant"

\* Math.ceil(Math.abs(currentDate - lastRecordDate) / (1000 * 60 * 60 * 24))
DiffDays(t, date) ==
  LET d == IF t >= date THEN t - date ELSE date - t
  IN (d + TicksPerDay - 1) \div TicksPerDay

\* HomeScreen as mounted, the user loaded: the useState initial values
HomeInit ==
  [pc |-> "idle", today |-> 0, foodData |-> << >>, closureStatus |-> "deficit",
   caloriesIn |-> 0, caloriesOut |-> 0, netCalories |-> 0,
   calorieStatus |-> "deficit",
   weeklyCaloriesData |-> [in |-> [k \in 1..SeriesLength |-> 0],
                           out |-> [k \in 1..SeriesLength |-> 0]],
   macroData |-> [protein |-> 0, fat |-> 0, carbs |-> 0],
   weightTrend |-> "stagnant", recommendedFor |-> "none", alert |-> FALSE]

\* WeightTrackingScreen as mounted: the useState initial values
\* an addWeightRecord call: the weight and date it sends, and the
\* weightRecords and userData of the render whose button was pressed
NoCall == [weight |-> 0, date |-> 0, weightRecords |-> << >>, userData |-> Null]

\* WeightTrackingScreen as mounted: the useState initial values (lines 46-58).
\* userData is Null or << the profile row >>; add is the position of
\* addWeightRecord, call its closure, addAlert the Alert it has raised.
TrackInit ==
  [pc |-> "idle", loading |-> TRUE, refreshing |-> FALSE,
   userId |-> NoUser, userData |-> Null,
   weightRecords |-> << >>, weightTrend |-> "null",
   showAddWeightModal |-> FALSE, alert |-> FALSE,
   newWeight |-> << >>, addingWeight |-> FALSE,
   add |-> "idle", call |-> NoCall, addAlert |-> ""]

\* ======================================== AddExerciseScreen / EditExerciseScreen
MaxText == 2            \* characters typed into a TextInput
MaxSeconds == 61        \* seconds the stopwatch counts

SecondsPerMinute == 60  \* Math.floor(seconds / 60)
ReferenceWeight == 70   \* const weightFactor = userWeight / 70
DefaultUserWeight == 70 \* useState<number>(70), currentWeight || 70

\* the rows of exerciseTypes the screens are exercised with
CaloriesPerMinute == [Walking |-> 4, Running |-> 10]
ExerciseTypes == DOMAIN CaloriesPerMinute

\* A text is a sequence of characters.  DurationKeys are the keys pressed in
\* the duration field, CalorieKeys those pressed in the calories field (both
\* have keyboardType="numeric").  TextsOf(text, keys) are the texts
\* onChangeText reports after one edit of a field showing text: the field
\* cleared, or one more key pressed at its end.
DurationKeys == {"0", "2", "-", "."}
CalorieKeys == {"7"}
TextsOf(text, keys) ==
  {<< >>} \cup {Append(text, k) : k \in {c \in keys : Len(text) < MaxText}}
Digits == << "0", "1", "2", "3", "4", "5", "6", "7", "8", "9" >>
IsDigit(c) == \E i \in DOMAIN Digits : Digits[i] = c
DigitValue(c) == (CHOOSE i \in DOMAIN Digits : Digits[i] = c) - 1

\* A JavaScript number is an integer n or NaN.
NaN == [nan |-> TRUE, n |-> 0]
Num(n) == [nan |-> FALSE, n |-> n]

\* length of the run of digits at the head of s
DigitRun(s) == Cardinality({k \in 1..Len(s) : \A i \in 1..k : IsDigit(s[i])})

RECURSIVE ValueOf(_, _)
ValueOf(s, k) == IF k = 0 THEN 0 ELSE 10 * ValueOf(s, k - 1) + DigitValue(s[k])

\* parseInt(s): an optional minus sign, then the digits up to the first other
\* character; NaN when there is no digit
ParseInt(s) ==
  LET neg == s # << >> /\ s[1] = "-"
      body == IF neg THEN Tail(s) ELSE s
      k == DigitRun(body)
  IN IF k = 0 THEN NaN
     ELSE Num(IF neg THEN 0 - ValueOf(body, k) ELSE ValueOf(body, k))

\* x || 0
OrZero(x) == IF x.nan THEN 0 ELSE x.n

RECURSIVE NatToText(_)
NatToText(n) ==
  IF n < 10 THEN << Digits[n + 1] >>
  ELSE Append(NatToText(n \div 10), Digits[(n % 10) + 1])

\* n.toString()
ToText(n) == IF n < 0 THEN << "-" >> \o NatToText(0 - n) ELSE NatToText(n)

\* JSON.stringify of a number: NaN is sent as null
ToJson(x) == IF x.nan THEN Null ELSE << x.n >>

CaloriesUnscaled(type, minutes, userWeight) == CaloriesPerMinute[type] * minutes

\* Math.round(selectedExercise.caloriesPerMinute * minutes * weightFactor);
\* the product is taken exactly, not in floating point
Calories(type, minutes, userWeight) ==
  Round(CaloriesPerMinute[type] * minutes * userWeight, ReferenceWeight)

\* the negation of `!duration || parseInt(duration) <= 0`
DurationAccepted(duration) ==
  ~(duration = << >> \/ (~ParseInt(duration).nan /\ ParseInt(duration).n <= 0))

NoEntry == [type |-> "", duration |-> NaN, caloriesBurned |-> 0]

\* the screen as mounted: the useState initial values; typedCalories is
\* bookkeeping, TRUE while the calories field holds what the user typed
FormInit(screen) ==
  [screen |-> screen, load |-> "getCurrentUser", save |-> "idle", userId |-> NoUser,
   exerciseType |-> "", duration |-> << >>, caloriesBurned |-> << >>,
   isStopwatchMode |-> FALSE, isRunning |-> FALSE, seconds |-> 0,
   userWeight |-> DefaultUserWeight, entry |-> NoEntry, typedCalories |-> FALSE]

\* AddExerciseScreen, the effects of lines 1205-1237 after a render that
\* changed the state from old to new: each runs when one of its dependencies
\* changed
AddEffects(old, new) ==
  LET stopwatch ==
        /\ << old.seconds, old.isStopwatchMode, old.exerciseType, old.userWeight >>
             # << new.seconds, new.isStopwatchMode, new.exerciseType, new.userWeight >>
        /\ new.isStopwatchMode
      minutes == new.seconds \div SecondsPerMinute
      manual ==
        /\ << old.duration, old.exerciseType, old.isStopwatchMode, old.userWeight >>
             # << new.duration, new.exerciseType, new.isStopwatchMode, new.userWeight >>
        /\ ~new.isStopwatchMode /\ new.exerciseType # "" /\ new.duration # << >>
  IN IF stopwatch
       THEN [new EXCEPT !.duration = ToText(minutes),
                        !.caloriesBurned =
                           IF new.exerciseType # ""
                             THEN ToText(Calories(new.exerciseType, minutes, new.userWeight))
                             ELSE @,
                        !.typedCalories = IF new.exerciseType # "" THEN FALSE ELSE @]
     ELSE IF manual
       THEN [new EXCEPT !.caloriesBurned =
               ToText(Calories(new.exerciseType, OrZero(ParseInt(new.duration)),
                               new.userWeight)),
                        !.typedCalories = FALSE]
     ELSE new

\* EditExerciseScreen, the effect of lines 1131-1143
EditEffects(old, new) ==
  IF /\ << old.duration, old.exerciseType, old.userWeight >>
          # << new.duration, new.exerciseType, new.userWeight >>
     /\ new.exerciseType # "" /\ new.duration # << >>
    THEN [new EXCEPT !.caloriesBurned =
            ToText(Calories(new.exerciseType, OrZero(ParseInt(new.duration)),
                            new.userWeight)),
                     !.typedCalories = FALSE]
    ELSE new

\* the state a handler leaves, after the effects that its changes trigger
Rendered(old, new) ==
  IF new.screen = "add" THEN AddEffects(old, new) ELSE EditEffects(old, new)

\* ------------------------------------------ JournalScreen / ExerciseScreen
MaxInFlight == 2        \* loads of a list screen in flight together

\* JournalScreen (table foods) or ExerciseScreen (table exercises) on the day
\* it is mounted, the user loaded: the useState values, and the load that
\* the effect [userId, selectedDate] has started.  A load in flight is the
\* selectedDate of the render that started it.
JournalInit(screen, today) ==
  [screen |-> screen, selectedDate |-> today, dateList |-> {}, entries |-> << >>,
   inFlight |-> << today >>]

\* ------------------------------------------------------------ ProfileScreen
MaxLogouts == 11        \* logouts per behaviour
HistoryKeep == 10       \* if (newLogoutHistory.length > 10)

\* newLogoutHistory.splice(0, newLogoutHistory.length - 10)
KeepOldest(history) ==
  IF Len(history) > HistoryKeep THEN SubSeq(history, 1, HistoryKeep) ELSE history

KeepLast(history) ==
  IF Len(history) > HistoryKeep
    THEN SubSeq(history, Len(history) - HistoryKeep + 1, Len(history))
    ELSE history

\* ProfileScreen before anybody is signed in; once mounted: userId, userData
\* (null, or the row of the user, of which logoutHistory is kept) and the
\* logout entry handleLogout is writing
ProfileInit ==
  [pc |-> "signedOut", userId |-> NoUser, userData |-> Null,
   newLogoutHistory |-> << >>, date |-> 0]

\* --------------------------------------------- StoreScreen: premium codes
\* two users, each with the StoreScreen of their own device
Users == {TheUser, "other"}

\* the code in the premium_codes table, and a text that is no code
TheCode == "KOALA"
PremiumCodes == {"", TheCode, "NOCODE"}

\* StoreScreen with the premium modal open: useState values; code
\* and row are the premiumCode and the premiumCodeData of the call in progress
StoreInit(uid) ==
  [pc |-> "idle", userId |-> uid, isPremium |-> FALSE, activatingPremium |-> FALSE,
   showPremiumModal |-> TRUE, premiumCode |-> "", alert |-> "", code |-> ""]

\* the row of TheCode, unused: it is looked up by its column `code` and
\* updated by its column `id`.  PremiumCode declares no id, so the id of the
\* row is whatever the table gives it: the code itself, or a key of its own.
CodeRow(id) == [id |-> id, code |-> TheCode, used |-> FALSE, usedBy |-> NoUser]

\* the ids the row of TheCode can have
CodeIds == {TheCode, "row-1"}

\* if (premiumCodeData.used)
CodeUsed(row) == row.used

\* ---------------------------------------------------------------- bookkeeping
NothingSeen ==
  [aggregated |-> FALSE, foods |-> << >>, exercises |-> << >>, today |-> 0, at |-> 0,
   homeTrend |-> FALSE, homeWeights |-> << >>,
   trackTrend |-> FALSE, trackWeights |-> << >>,
   refused |-> FALSE,
   saved |-> FALSE, savedBy |-> "", savedWeight |-> 0, savedTyped |-> FALSE,
   listFailed |-> FALSE, homeFailed |-> FALSE, trackFailed |-> FALSE,
   logouts |-> << >>, profileFailed |-> FALSE,
   granted |-> FALSE, after |-> {}, adds |-> 0]

\* the journal, profile and store screens while another screen is looked at
MoreAtRest ==
  /\ journal = JournalInit("journal", 0)
  /\ profile = ProfileInit
  /\ dbLogoutHistory = << >>
  /\ premium = [u \in Users |-> StoreInit(u)]
  /\ dbCode = CodeRow(TheCode)
  /\ dbIsPremium = [u \in Users |-> FALSE]

\* the other stores and screens while one screen is looked at
AppAtRest ==
  /\ dbFoods = << >>
  /\ dbExercises = << >>
  /\ dbWeights = << >>
  /\ dbCurrentWeight = Null
  /\ home = HomeInit
  /\ track = TrackInit
  /\ form = FormInit("add")
  /\ seen = NothingSeen
  /\ MoreAtRest

\* -------------------------------------------------------------------- Init
\* The rows a first loadData run of day 0 leaves in the store when every call
\* succeeds (SpecGen reaches this table from the empty one).
GeneratedTable ==
  [i \in 1..9 |->
     IF i <= 3 THEN NewMission(DailyTemplates[i], Tomorrow(0), 0)
     ELSE NewMission(WeeklyTemplates[((i - 4) % 3) + 1], NextWeek(0), 0)]

\* The Missions screen is opened by a user without missions, or by one whose
\* missions were generated earlier on day 0.
InitGen ==
  /\ now = 0
  /\ dbPoints = 0
  /\ dbMissions \in {<< >>, GeneratedTable}
  /\ userId = NoUser
  /\ userPoints = 0
  /\ missions = << >>
  /\ stack = [t \in Tasks |-> << >>]
  /\ faults = 0
  /\ insertOutage \in BOOLEAN
  /\ calls = 0
  /\ run = [t \in Tasks |-> Idle]
  /\ loads = << >>
  /\ hist = << >>
  /\ credits = [i \in 1..MaxUpdId |-> 0]
  /\ attempts = [x \in Titles |-> 0]
  /\ cgRet = FALSE
  /\ everOverlap = FALSE
  /\ AppAtRest

\* The Missions screen after that run has finished, later on day 0 or on day 1.
InitUpd ==
  /\ now \in {1, TicksPerDay + 1}
  /\ dbPoints = 0
  /\ dbMissions = GeneratedTable
  /\ userId = TheUser
  /\ userPoints = 0
  /\ missions = GeneratedTable
  /\ stack = [t \in Tasks |-> << >>]
  /\ faults = 0
  /\ insertOutage = FALSE
  /\ calls = 0
  /\ run = [t \in Tasks |-> Idle]
  /\ loads = << >>
  /\ hist = << >>
  /\ credits = [i \in 1..MaxUpdId |-> 0]
  /\ attempts = [x \in Titles |-> 0]
  /\ cgRet = FALSE
  /\ everOverlap = FALSE
  /\ AppAtRest

\* ---------------------------------------------------------------- loadData
\* useFocusEffect / onRefresh: loadData() starts and awaits getCurrentUser()
StartLoad ==
  /\ stack["focus"] = << >>
  /\ stack' = [stack EXCEPT !["focus"] = << LoadFrame("getCurrentUser") >>]
  /\ run' = RunStarted("focus", [Idle EXCEPT !.kind = "load", !.n0 = Len(dbMissions),
                                  !.f0 = faults, !.d0 = StartOfDay(now),
                                  !.had = HasCurrent(dbMissions, now)])
  /\ attempts' = [x \in Titles |-> 0]
  /\ everOverlap' = (everOverlap \/ ~OthersIdle("focus"))
  /\ cgRet' = FALSE
  /\ UNCHANGED appVars
  /\ UNCHANGED << now, dbPoints, dbMissions, userId, userPoints, missions, faults,
                  insertOutage, calls, loads, hist, credits >>

\* const { data, error } = await getCurrentUser()
GetCurrentUserOk(t) ==
  /\ stack[t] # << >>
  /\ Top(stack[t]).fn = "loadData" /\ Top(stack[t]).pc = "getCurrentUser"
  /\ userId' = TheUser
  /\ stack' = [stack EXCEPT ![t] = SetTopPc(stack[t], "getUser")]
  /\ cgRet' = FALSE
  /\ UNCHANGED appVars
  /\ UNCHANGED << now, dbPoints, dbMissions, userPoints, missions, faults,
                  insertOutage, calls, run, loads, hist, credits, attempts,
                  everOverlap >>

\* a fetch of loadData fails: throw, catch (Alert), finally, return to the caller
LoadFetchFails(t) ==
  /\ stack[t] # << >>
  /\ Top(stack[t]).fn = "loadData"
  /\ Top(stack[t]).pc \in {"getCurrentUser", "getUser", "getMissions", "getBadges"}
  /\ faults < MaxFaults
  /\ faults' = faults + 1
  /\ LET ns == Unwind(Pop(stack[t]), now) IN
       /\ Len(ns) <= MaxDepth
       /\ stack' = [stack EXCEPT ![t] = ns]
       /\ cgRet' = UnwindReturnsCheck(Pop(stack[t]))
       /\ UNCHANGED appVars
       /\ Settle(t, ns, run[t], dbPoints, dbMissions, faults + 1)
  /\ UNCHANGED << now, dbPoints, dbMissions, userId, userPoints, missions,
                  insertOutage, calls, credits, attempts, everOverlap >>

\* await getData('users', 'id', ...); setUserPoints(userData[0].points || 0)
GetUserOk(t) ==
  /\ stack[t] # << >>
  /\ Top(stack[t]).fn = "loadData" /\ Top(stack[t]).pc = "getUser"
  /\ userPoints' = dbPoints
  /\ stack' = [stack EXCEPT ![t] = SetTopPc(stack[t], "getMissions")]
  /\ cgRet' = FALSE
  /\ UNCHANGED appVars
  /\ UNCHANGED << now, dbPoints, dbMissions, userId, missions, faults,
                  insertOutage, calls, run, loads, hist, credits, attempts,
                  everOverlap >>

\* await getData('missions', 'userId', ...); setMissions(sortedMissions);
\* await checkAndGenerateMissions(id, sortedMissions)
GetMissionsOk(t) ==
  /\ stack[t] # << >>
  /\ Top(stack[t]).fn = "loadData" /\ Top(stack[t]).pc = "getMissions"
  /\ missions' = dbMissions
  /\ LET ns == EnterCheck(stack[t], dbMissions, now) IN
       /\ Len(ns) <= MaxDepth
       /\ stack' = [stack EXCEPT ![t] = ns]
  /\ cgRet' = EnterCheckReturns(dbMissions, now)
  /\ UNCHANGED appVars
  /\ UNCHANGED << now, dbPoints, dbMissions, userId, userPoints, faults,
                  insertOutage, calls, run, loads, hist, credits, attempts,
                  everOverlap >>

\* await getData('badges', ...); updateKoalaState; finally; return
GetBadgesOk(t) ==
  /\ stack[t] # << >>
  /\ Top(stack[t]).fn = "loadData" /\ Top(stack[t]).pc = "getBadges"
  /\ LET ns == Unwind(Pop(stack[t]), now) IN
       /\ Len(ns) <= MaxDepth
       /\ stack' = [stack EXCEPT ![t] = ns]
       /\ cgRet' = UnwindReturnsCheck(Pop(stack[t]))
       /\ UNCHANGED appVars
       /\ Settle(t, ns, run[t], dbPoints, dbMissions, faults)
  /\ UNCHANGED << now, dbPoints, dbMissions, userId, userPoints, missions, faults,
                  insertOutage, calls, credits, attempts, everOverlap >>

\* ------------------------------ generateDailyMissions / generateWeeklyMissions
\* The generator on top of s has had the answer to its insert: next template,
\* or, after the last one, `await loadData()`.
AfterInsert(s) ==
  IF Top(s).i < Len(TemplatesOf(Top(s).type))
    THEN [s EXCEPT ![Len(s)].i = @ + 1]
    ELSE Push(SetTopPc(s, "reload"), LoadFrame("getCurrentUser"))

Attempted(t, title) ==
  IF t = "focus" THEN [attempts EXCEPT ![title] = @ + 1] ELSE attempts

\* await insertData('missions', mission) stores the row
InsertOk(t) ==
  /\ stack[t] # << >>
  /\ Top(stack[t]).fn = "generateMissions" /\ Top(stack[t]).pc = "insert"
  /\ ~insertOutage
  /\ Len(dbMissions) < MaxMissions
  /\ LET f == Top(stack[t])
         tpl == TemplatesOf(f.type)[f.i]
         ns == AfterInsert(stack[t])
     IN /\ Len(ns) <= MaxDepth
        /\ dbMissions' = Append(dbMissions, NewMission(tpl, f.exp, f.created))
        /\ attempts' = Attempted(t, tpl.title)
        /\ stack' = [stack EXCEPT ![t] = ns]
        /\ run' = [run EXCEPT ![t].ins = @ + 1]
  /\ cgRet' = FALSE
  /\ UNCHANGED appVars
  /\ UNCHANGED << now, dbPoints, userId, userPoints, missions, faults,
                  insertOutage, calls, loads, hist, credits, everOverlap >>

\* await insertData('missions', mission) answers { error }: the result is not
\* looked at, the loop goes on
InsertFails(t) ==
  /\ stack[t] # << >>
  /\ Top(stack[t]).fn = "generateMissions" /\ Top(stack[t]).pc = "insert"
  /\ insertOutage \/ faults < MaxFaults
  /\ faults' = IF insertOutage THEN faults ELSE faults + 1
  /\ LET f == Top(stack[t])
         tpl == TemplatesOf(f.type)[f.i]
         ns == AfterInsert(stack[t])
     IN /\ Len(ns) <= MaxDepth
        /\ attempts' = Attempted(t, tpl.title)
        /\ stack' = [stack EXCEPT ![t] = ns]
  /\ cgRet' = FALSE
  /\ UNCHANGED appVars
  /\ UNCHANGED << now, dbPoints, dbMissions, userId, userPoints, missions,
                  insertOutage, calls, run, loads, hist, credits, everOverlap >>


\* --------------------------------------------------- updateMissionProgress
\* the newProgress values a caller reports for a mission with this target
ProgressInputs(target) == {target - 1, target}

\* a new call runs as the first task that is idle
FirstIdle(u) == u = "u1" \/ stack["u1"] # << >>

\* updateMissionProgress(missionId, newProgress) with missions.find(...) undefined:
\* `if (!mission) return`
StartUpdateUnknown(u, mid, maxCalls) ==
  /\ stack[u] = << >>
  /\ FirstIdle(u)
  /\ calls < maxCalls
  /\ mid \notin DOMAIN missions
  /\ calls' = calls + 1
  /\ cgRet' = FALSE
  /\ UNCHANGED appVars
  /\ UNCHANGED << now, dbPoints, dbMissions, userId, userPoints, missions, stack,
                  faults, insertOutage, run, loads, hist, credits, attempts,
                  everOverlap >>

\* updateMissionProgress(missionId, newProgress) up to `await updateData('missions', ...)`;
\* mission, userPoints and userId are those of the render the call was made from
StartUpdate(u, mid, np, maxCalls) ==
  /\ stack[u] = << >>
  /\ FirstIdle(u)
  /\ calls < maxCalls
  /\ mid \in DOMAIN missions
  /\ np \in ProgressInputs(missions[mid].target)
  /\ calls' = calls + 1
  /\ stack' = [stack EXCEPT ![u] =
                 << UpdateFrame(mid, np, missions[mid], userPoints, userId) >>]
  /\ run' = RunStarted(u, [Idle EXCEPT !.kind = "update", !.f0 = faults,
                           !.mid = mid, !.hit = Completed(np, missions[mid].target),
                           !.prePts = dbPoints,
                           !.preDone = dbMissions[mid].completed,
                           !.prePr = dbMissions[mid].progress])
  /\ everOverlap' = (everOverlap \/ ~OthersIdle(u))
  /\ cgRet' = FALSE
  /\ UNCHANGED appVars
  /\ UNCHANGED << now, dbPoints, dbMissions, userId, userPoints, missions, faults,
                  insertOutage, loads, hist, credits, attempts >>

\* await updateData('missions', missionId, { progress, completed }) succeeds;
\* then the award test, and either the users write or the reload is awaited
UpdateMissionOk(u) ==
  /\ stack[u] # << >>
  /\ Top(stack[u]).fn = "updateMissionProgress" /\ Top(stack[u]).pc = "updateMission"
  /\ LET f == Top(stack[u]) IN
       /\ dbMissions' = [dbMissions EXCEPT ![f.mid].progress = f.newProgress,
                                           ![f.mid].completed = f.completed]
       /\ stack' = [stack EXCEPT ![u] =
            IF ShouldAward(f.completed, f.mission.completed) /\ f.uid # NoUser
              THEN SetTopPc(stack[u], "updatePoints")
              ELSE Push(SetTopPc(stack[u], "reload"), LoadFrame("getCurrentUser"))]
  /\ cgRet' = FALSE
  /\ UNCHANGED appVars
  /\ UNCHANGED << now, dbPoints, userId, userPoints, missions, faults, insertOutage,
                  calls, run, loads, hist, credits, attempts, everOverlap >>

\* await updateData('missions', ...) answers { error }: `if (error) throw error`,
\* catch (Alert), return
UpdateMissionFails(u) ==
  /\ stack[u] # << >>
  /\ Top(stack[u]).fn = "updateMissionProgress" /\ Top(stack[u]).pc = "updateMission"
  /\ faults < MaxFaults
  /\ faults' = faults + 1
  /\ stack' = [stack EXCEPT ![u] = << >>]
  /\ Settle(u, << >>, [run[u] EXCEPT !.wfail = TRUE], dbPoints, dbMissions, faults + 1)
  /\ cgRet' = FALSE
  /\ UNCHANGED appVars
  /\ UNCHANGED << now, dbPoints, dbMissions, userId, userPoints, missions,
                  insertOutage, calls, credits, attempts, everOverlap >>

\* await updateData('users', userId, { points: newPoints }) succeeds;
\* setUserPoints(newPoints); Alert; await loadData()
UpdatePointsOk(u) ==
  /\ stack[u] # << >>
  /\ Top(stack[u]).fn = "updateMissionProgress" /\ Top(stack[u]).pc = "updatePoints"
  /\ LET f == Top(stack[u])
         newPoints == NewPoints(f.points, f.mission.points)
     IN /\ dbPoints' = newPoints
        /\ userPoints' = newPoints
        /\ credits' = [credits EXCEPT ![f.mid] = @ + 1]
  /\ run' = [run EXCEPT ![u].awarded = TRUE]
  /\ stack' = [stack EXCEPT ![u] =
                 Push(SetTopPc(stack[u], "reload"), LoadFrame("getCurrentUser"))]
  /\ cgRet' = FALSE
  /\ UNCHANGED appVars
  /\ UNCHANGED << now, dbMissions, userId, missions, faults, insertOutage, calls,
                  loads, hist, attempts, everOverlap >>

\* await updateData('users', ...) answers { error }: the result is not looked at;
\* setUserPoints(newPoints); Alert; await loadData()
UpdatePointsFails(u) ==
  /\ stack[u] # << >>
  /\ Top(stack[u]).fn = "updateMissionProgress" /\ Top(stack[u]).pc = "updatePoints"
  /\ faults < MaxFaults
  /\ faults' = faults + 1
  /\ LET f == Top(stack[u]) IN
       userPoints' = NewPoints(f.points, f.mission.points)
  /\ stack' = [stack EXCEPT ![u] =
                 Push(SetTopPc(stack[u], "reload"), LoadFrame("getCurrentUser"))]
  /\ run' = [run EXCEPT ![u].wfail = TRUE]
  /\ cgRet' = FALSE
  /\ UNCHANGED appVars
  /\ UNCHANGED << now, dbPoints, dbMissions, userId, missions, insertOutage, calls,
                  loads, hist, credits, attempts, everOverlap >>

\* ------------------------------------------------------------------- clock
Tick ==
  /\ now < MaxNow
  /\ now' = now + 1
  /\ cgRet' = FALSE
  /\ UNCHANGED appVars
  /\ UNCHANGED << dbPoints, dbMissions, userId, userPoints, missions, stack, faults,
                  insertOutage, calls, run, loads, hist, credits, attempts,
                  everOverlap >>

\* the Missions screen loading and generating missions, clock running
NextGen ==
  \/ StartLoad
  \/ GetCurrentUserOk("focus")
  \/ GetUserOk("focus")
  \/ GetMissionsOk("focus")
  \/ GetBadgesOk("focus")
  \/ LoadFetchFails("focus")
  \/ InsertOk("focus")
  \/ InsertFails("focus")
  \/ Tick

SpecGen == InitGen /\ [][NextGen]_vars

\* concurrent progress reports on the generated missions, each followed by its
\* reload; the store answers every call
NextRace ==
  \/ \E u \in Updaters, mid \in 0..MaxUpdId : StartUpdateUnknown(u, mid, MaxRaceCalls)
  \/ \E u \in Updaters, mid \in 1..MaxUpdId, np \in 0..25 :
       StartUpdate(u, mid, np, MaxRaceCalls)
  \/ \E u \in Updaters : UpdateMissionOk(u)
  \/ \E u \in Updaters : UpdatePointsOk(u)
  \/ \E u \in Updaters : GetCurrentUserOk(u)
  \/ \E u \in Updaters : GetUserOk(u)
  \/ \E u \in Updaters : GetMissionsOk(u)
  \/ \E u \in Updaters : GetBadgesOk(u)

SpecRace == InitUpd /\ [][NextRace]_vars

\* progress reports one after the other, against a store whose calls can fail
NextSeq ==
  \/ \E mid \in 0..MaxUpdId : StartUpdateUnknown("u1", mid, MaxCalls)
  \/ \E mid \in 1..MaxUpdId, np \in 0..25 : StartUpdate("u1", mid, np, MaxCalls)
  \/ UpdateMissionOk("u1")
  \/ UpdateMissionFails("u1")
  \/ UpdatePointsOk("u1")
  \/ UpdatePointsFails("u1")
  \/ GetCurrentUserOk("u1")
  \/ GetUserOk("u1")
  \/ GetMissionsOk("u1")
  \/ GetBadgesOk("u1")
  \/ LoadFetchFails("u1")

SpecSeq == InitUpd /\ [][NextSeq]_vars

\* ============================================= HomeScreen: loadDashboardData
stores == << dbFoods, dbExercises, dbWeights, dbCurrentWeight >>

\* useEffect([user, language]) / onRefresh: loadDashboardData() takes `today`
\* and awaits getData('foods', ...); calorieStatus is the one of the render
\* the function was created in
HomeStartLoad ==
  /\ home.pc = "idle"
  /\ home' = [home EXCEPT !.pc = "foods", !.today = UtcDate(now),
                          !.closureStatus = home.calorieStatus]
  /\ seen' = [seen EXCEPT !.homeFailed = FALSE]
  /\ UNCHANGED << now, missionVars, moreVars, stores, track, form >>

\* await getData('foods', ...) answers the rows; getData('exercises', ...) is awaited
HomeGetFoodsOk ==
  /\ home.pc = "foods"
  /\ home' = [home EXCEPT !.pc = "exercises", !.foodData = dbFoods]
  /\ UNCHANGED << now, missionVars, moreVars, stores, track, form, seen >>

\* await getData('exercises', ...) answers the rows: the totals of today, the
\* weekly series and the macro averages are set (lines 1248-1297), then
\* getData('weight_records', ...) is awaited
HomeGetExercisesOk ==
  /\ home.pc = "exercises"
  /\ LET foodData == home.foodData
         exerciseData == dbExercises
         totalCaloriesIn == Total(Dated(foodData, home.today), "calories")
         totalCaloriesOut == Total(Dated(exerciseData, home.today), "caloriesBurned")
     IN /\ home' = [home EXCEPT
              !.pc = "weights",
              !.foodData = << >>,
              !.caloriesIn = totalCaloriesIn,
              !.caloriesOut = totalCaloriesOut,
              !.netCalories = totalCaloriesIn - totalCaloriesOut,
              !.calorieStatus = CalorieStatus(totalCaloriesIn, totalCaloriesOut),
              !.weeklyCaloriesData =
                 [in |-> WeeklySeries(foodData, "calories", now),
                  out |-> WeeklySeries(exerciseData, "caloriesBurned", now)],
              !.macroData =
                 [protein |-> MacroAverage(foodData, "protein", now),
                  fat |-> MacroAverage(foodData, "fat", now),
                  carbs |-> MacroAverage(foodData, "carbs", now)]]
        /\ seen' = [seen EXCEPT !.aggregated = TRUE, !.foods = foodData,
                                !.exercises = exerciseData, !.today = home.today,
                                !.at = now]
  /\ UNCHANGED << now, missionVars, moreVars, stores, track, form >>

\* await getData('weight_records', ...) answers the rows: the trend is set when
\* there are two of them (lines 1306-1318), then getHealthTips is awaited
HomeGetWeightsOk ==
  /\ home.pc = "weights"
  /\ home' = [home EXCEPT
        !.pc = "tip",
        !.weightTrend = IF Len(dbWeights) >= 2
                          THEN TrendOf(SortNewestFirst(dbWeights)) ELSE @]
  /\ seen' = [seen EXCEPT !.homeTrend = TRUE, !.homeWeights = dbWeights]
  /\ UNCHANGED << now, missionVars, moreVars, stores, track, form >>

\* a getData of loadDashboardData answers { error }: throw, caught at line
\* 1346, where console.error is all that is done
HomeFetchFails ==
  /\ home.pc \in {"foods", "exercises", "weights"}
  /\ home' = [home EXCEPT !.pc = "idle", !.foodData = << >>]
  /\ seen' = [seen EXCEPT !.homeFailed = TRUE]
  /\ UNCHANGED << now, missionVars, moreVars, stores, track, form >>

\* await getHealthTips(language) answers; getFoodRecommendations is awaited
HomeTipOk ==
  /\ home.pc = "tip"
  /\ home' = [home EXCEPT !.pc = "foodRec"]
  /\ UNCHANGED << now, missionVars, moreVars, stores, track, form, seen >>

\* await getFoodRecommendations({ ..., calorieStatus }, language) answers
HomeFoodRecOk ==
  /\ home.pc = "foodRec"
  /\ home' = [home EXCEPT !.pc = "exerciseRec", !.recommendedFor = home.closureStatus]
  /\ UNCHANGED << now, missionVars, moreVars, stores, track, form, seen >>

\* await getExerciseRecommendations(...) answers: loadDashboardData is over
HomeExerciseRecOk ==
  /\ home.pc = "exerciseRec"
  /\ home' = [home EXCEPT !.pc = "idle"]
  /\ UNCHANGED << now, missionVars, moreVars, stores, track, form, seen >>

\* getHealthTips or a recommendation call rejects: caught at line 1346
HomeServiceFails ==
  /\ home.pc \in {"tip", "foodRec", "exerciseRec"}
  /\ home' = [home EXCEPT !.pc = "idle"]
  /\ UNCHANGED << now, missionVars, moreVars, stores, track, form, seen >>

\* ============================================ WeightTrackingScreen: loadData
PromptDays == 7         \* if (diffDays >= 7)

\* useEffect / onRefresh: loadData() awaits getCurrentUser()
TrackStartLoad ==
  /\ track.pc = "idle"
  /\ track' = [track EXCEPT !.pc = "getCurrentUser", !.loading = TRUE, !.alert = FALSE]
  /\ seen' = [seen EXCEPT !.trackFailed = FALSE]
  /\ UNCHANGED << now, missionVars, moreVars, stores, home, form >>

\* await getCurrentUser() answers the user: setUserId(data.user.id);
\* getData('users', ...) is awaited
TrackGetCurrentUserOk ==
  /\ track.pc = "getCurrentUser"
  /\ track' = [track EXCEPT !.pc = "getUser", !.userId = TheUser]
  /\ UNCHANGED << now, missionVars, moreVars, stores, home, form, seen >>

\* await getData('users', ...) answers the profile: setUserData(userData[0]);
\* getData('weight_records', ...) is awaited
TrackGetUserOk ==
  /\ track.pc = "getUser"
  /\ track' = [track EXCEPT !.pc = "getWeights",
                            !.userData = << [currentWeight |-> dbCurrentWeight] >>]
  /\ UNCHANGED << now, missionVars, moreVars, stores, home, form, seen >>

\* await getData('weight_records', ...) answers the rows: they are sorted and
\* kept, the weekly prompt and the trend are set (lines 109-152)
TrackGetWeightsOk ==
  /\ track.pc = "getWeights"
  /\ LET sortedRecords == SortNewestFirst(dbWeights)
     IN track' = [track EXCEPT
          !.pc = "idle", !.loading = FALSE, !.refreshing = FALSE,
          !.weightRecords = sortedRecords,
          !.showAddWeightModal =
             IF sortedRecords # << >> /\ DiffDays(now, sortedRecords[1].date) >= PromptDays
               THEN TRUE ELSE @,
          !.weightTrend = IF Len(sortedRecords) >= 2 THEN TrendOf(sortedRecords) ELSE @]
  /\ seen' = [seen EXCEPT !.trackTrend = TRUE, !.trackWeights = dbWeights]
  /\ UNCHANGED << now, missionVars, moreVars, stores, home, form >>

\* a call of loadData answers { error }: throw, caught at line 156:
\* Alert.alert(i18n.t('error'), i18n.t('loadDataError')); finally
TrackFetchFails ==
  /\ track.pc \in {"getCurrentUser", "getUser", "getWeights"}
  /\ track' = [track EXCEPT !.pc = "idle", !.loading = FALSE, !.refreshing = FALSE,
                            !.alert = TRUE]
  /\ seen' = [seen EXCEPT !.trackFailed = TRUE]
  /\ UNCHANGED << now, missionVars, moreVars, stores, home, form >>

\* ==================================== AddExerciseScreen / EditExerciseScreen
\* The row EditExerciseScreen was opened for (route.params.exerciseId) is row 1
\* of the exercises table.  While a save awaits the store the form is left
\* alone; the date and time of a row are not represented beyond its date.
Open == form.save = "idle"

\* loadUserData / loadData: await getCurrentUser() answers the user
FormGetCurrentUserOk ==
  /\ form.load = "getCurrentUser" /\ Open
  /\ form' = Rendered(form, [form EXCEPT !.load = "getUser", !.userId = TheUser])
  /\ UNCHANGED << now, missionVars, moreVars, stores, home, track, seen >>

\* await getData('users', ...) answers the profile:
\* setUserWeight(userData[0].currentWeight || 70)
FormGetUserOk ==
  /\ form.load = "getUser" /\ Open
  /\ form' = Rendered(form,
       [form EXCEPT !.load = IF form.screen = "add" THEN "done" ELSE "getExercise",
                    !.userWeight = IF ToNumber(dbCurrentWeight) = 0
                                     THEN DefaultUserWeight
                                     ELSE ToNumber(dbCurrentWeight)])
  /\ UNCHANGED << now, missionVars, moreVars, stores, home, track, seen >>

\* EditExerciseScreen: await getData('exercises', 'id', exerciseId) answers the
\* row, whose values fill the form; without a row the screen is left
FormGetExerciseOk ==
  /\ form.load = "getExercise" /\ Open
  /\ form' =
       IF dbExercises = << >> THEN [form EXCEPT !.load = "done", !.save = "closed"]
       ELSE LET exercise == dbExercises[1]
            IN Rendered(form,
                 [form EXCEPT !.load = "done",
                              !.exerciseType = exercise.type,
                              !.duration = ToText(ToNumber(exercise.duration)),
                              !.caloriesBurned = ToText(ToNumber(exercise.caloriesBurned)),
                              !.typedCalories = FALSE])
  /\ UNCHANGED << now, missionVars, moreVars, stores, home, track, seen >>

\* a call of loadUserData / loadData answers { error }: throw, caught
FormLoadFails ==
  /\ form.load \in {"getCurrentUser", "getUser", "getExercise"} /\ Open
  /\ form' = [form EXCEPT !.load = "done"]
  /\ UNCHANGED << now, missionVars, moreVars, stores, home, track, seen >>

\* selectExerciseType(type): the type is set and, with a duration in the field
\* (and not in stopwatch mode), the calories are computed
SelectExerciseType(type) ==
  /\ Open
  /\ form' = Rendered(form,
       [form EXCEPT !.exerciseType = type,
                    !.caloriesBurned =
                       IF ~form.isStopwatchMode /\ form.duration # << >>
                         THEN ToText(Calories(type, OrZero(ParseInt(form.duration)),
                                              form.userWeight))
                         ELSE @,
                    !.typedCalories =
                       IF ~form.isStopwatchMode /\ form.duration # << >> THEN FALSE ELSE @])
  /\ UNCHANGED << now, missionVars, moreVars, stores, home, track, seen >>

\* the duration TextInput (rendered outside stopwatch mode): onChangeText={setDuration}
EditDuration(text) ==
  /\ Open /\ ~form.isStopwatchMode
  /\ text # form.duration
  /\ form' = Rendered(form, [form EXCEPT !.duration = text])
  /\ UNCHANGED << now, missionVars, moreVars, stores, home, track, seen >>

\* the caloriesBurned TextInput: onChangeText={setCaloriesBurned}
EditCalories(text) ==
  /\ Open
  /\ text # form.caloriesBurned
  /\ form' = Rendered(form, [form EXCEPT !.caloriesBurned = text,
                                          !.typedCalories = TRUE])
  /\ UNCHANGED << now, missionVars, moreVars, stores, home, track, seen >>

\* toggleStopwatchMode
ToggleStopwatchMode ==
  /\ Open /\ form.screen = "add"
  /\ form' = Rendered(form,
       [form EXCEPT !.isRunning = FALSE, !.isStopwatchMode = ~form.isStopwatchMode,
                    !.seconds = 0, !.duration = ToText(0)])
  /\ UNCHANGED << now, missionVars, moreVars, stores, home, track, seen >>

\* toggleStopwatch: start or stop
ToggleStopwatch ==
  /\ Open /\ form.isStopwatchMode
  /\ form' = Rendered(form, [form EXCEPT !.isRunning = ~form.isRunning])
  /\ UNCHANGED << now, missionVars, moreVars, stores, home, track, seen >>

\* resetStopwatch (the button is disabled at 0 seconds)
ResetStopwatch ==
  /\ Open /\ form.isStopwatchMode /\ form.seconds # 0
  /\ form' = Rendered(form,
       [form EXCEPT !.isRunning = FALSE, !.seconds = 0, !.duration = ToText(0),
                    !.caloriesBurned = ToText(0), !.typedCalories = FALSE])
  /\ UNCHANGED << now, missionVars, moreVars, stores, home, track, seen >>

\* the interval of the running stopwatch: setSeconds(prev => prev + 1)
StopwatchTick ==
  /\ Open /\ form.isRunning
  /\ form.seconds < MaxSeconds
  /\ form' = Rendered(form, [form EXCEPT !.seconds = form.seconds + 1])
  /\ UNCHANGED << now, missionVars, moreVars, stores, home, track, seen >>

\* `!userId`, `!exerciseType` or `!duration || parseInt(duration) <= 0`
Refused ==
  \/ form.userId = NoUser
  \/ form.exerciseType = ""
  \/ ~DurationAccepted(form.duration)

\* saveExercise / updateExercise returns after an Alert: nothing is sent
SaveRefused ==
  /\ Open /\ Refused
  /\ seen' = [seen EXCEPT !.refused = TRUE]
  /\ UNCHANGED << now, missionVars, moreVars, stores, home, track, form >>

\* saveExercise / updateExercise builds the entry and awaits insertData /
\* updateData
SaveExercise ==
  /\ Open /\ ~Refused
  /\ form' = [form EXCEPT
        !.save = "write",
        !.entry = [type |-> form.exerciseType,
                   duration |-> ParseInt(form.duration),
                   caloriesBurned |-> OrZero(ParseInt(form.caloriesBurned))]]
  /\ UNCHANGED << now, missionVars, moreVars, stores, home, track, seen >>

\* the row the store keeps for the entry sent by the form
StoredEntry(entry, date) ==
  [type |-> entry.type, duration |-> ToJson(entry.duration),
   caloriesBurned |-> << entry.caloriesBurned >>, date |-> date]

\* await insertData('exercises', exerciseEntry) / updateData('exercises',
\* exerciseId, updatedExercise) stores the entry (an update of a row that is
\* not in the table changes nothing and reports no error);
\* navigation.goBack().  seen.saved records that a row was written.
ExerciseWriteOk ==
  /\ form.save = "write"
  /\ dbExercises' =
       IF form.screen = "add"
         THEN Append(dbExercises, StoredEntry(form.entry, UtcDate(now)))
         ELSE IF Len(dbExercises) = 0
           THEN dbExercises
           ELSE [dbExercises EXCEPT ![1] = StoredEntry(form.entry, @.date)]
  /\ form' = [form EXCEPT !.save = "closed"]
  /\ seen' = [seen EXCEPT !.saved = Len(dbExercises') > 0, !.savedBy = form.screen,
                          !.savedWeight = form.userWeight,
                          !.savedTyped = form.typedCalories]
  /\ UNCHANGED << now, missionVars, moreVars, dbFoods, dbWeights, dbCurrentWeight, home, track >>

\* the store answers { error }: throw, Alert, the form stays open
ExerciseWriteFails ==
  /\ form.save = "write"
  /\ form' = [form EXCEPT !.save = "idle", !.entry = NoEntry]
  /\ UNCHANGED << now, missionVars, moreVars, stores, home, track, seen >>

\* ------------------------------------------------------- the screens' inputs
SeqsUpTo(S, n) == UNION {[1..k -> S] : k \in 0..n}

\* the Missions screen while another screen is looked at
MissionsAtRest ==
  /\ dbPoints = 0
  /\ dbMissions = << >>
  /\ userId = TheUser
  /\ userPoints = 0
  /\ missions = << >>
  /\ stack = [t \in Tasks |-> << >>]
  /\ faults = 0
  /\ insertOutage = FALSE
  /\ calls = 0
  /\ run = [t \in Tasks |-> Idle]
  /\ loads = << >>
  /\ hist = << >>
  /\ credits = [i \in 1..MaxUpdId |-> 0]
  /\ attempts = [x \in Titles |-> 0]
  /\ cgRet = FALSE
  /\ everOverlap = FALSE

\* calendar dates of the food and exercise rows: eight and seven days before
\* day 1, day 0, day 1
RowDates == {0 - MacroWindowDays, 1 - MacroWindowDays, 0, 1}

FoodRows ==
  {[date |-> d, calories |-> c[1], protein |-> c[2], fat |-> c[3], carbs |-> c[4]] :
     d \in RowDates,
     c \in {<< << 300 >>, << 10 >>, << 5 >>, << 40 >> >>,
            << << 500 >>, Null, << 9 >>, << 3 >> >>,
            << Null, << 4 >>, Null, Null >>}}

ExerciseRows ==
  {[type |-> "Running", duration |-> << 20 >>, caloriesBurned |-> c, date |-> d] :
     d \in RowDates \ {0 - MacroWindowDays}, c \in {Null, << 300 >>}}

\* instants of the weight records: PromptDays days before instant 2, one
\* instant later than that, and the instants 0 and 1
WeightRows ==
  {[date |-> d, weight |-> w] :
     d \in {2 - PromptDays * TicksPerDay, 3 - PromptDays * TicksPerDay, 0, 1},
     w \in {60, 62}}

\* loadDashboardData filters and sums the rows of a table, so one order of
\* every collection of rows is drawn: by date, then by calories
FoodsInOrder(rows) ==
  \A i \in 1..Len(rows) - 1 :
    \/ rows[i].date < rows[i + 1].date
    \/ /\ rows[i].date = rows[i + 1].date
       /\ ToNumber(rows[i].calories) <= ToNumber(rows[i + 1].calories)

ExercisesInOrder(rows) ==
  \A i \in 1..Len(rows) - 1 :
    \/ rows[i].date < rows[i + 1].date
    \/ /\ rows[i].date = rows[i + 1].date
       /\ ToNumber(rows[i].caloriesBurned) <= ToNumber(rows[i + 1].caloriesBurned)

\* HomeScreen of a user with up to MaxDashRows food and exercise rows and two
\* weight records, on day 0
InitDash ==
  /\ now \in {0, 1}
  /\ MissionsAtRest
  /\ dbFoods \in SeqsUpTo(FoodRows, MaxDashRows)
  /\ FoodsInOrder(dbFoods)
  /\ dbExercises \in SeqsUpTo(ExerciseRows, MaxDashRows - Len(dbFoods))
  /\ ExercisesInOrder(dbExercises)
  /\ dbWeights = << [date |-> 0, weight |-> 62], [date |-> 1, weight |-> 60] >>
  /\ dbCurrentWeight = << 60 >>
  /\ home = HomeInit
  /\ track = TrackInit
  /\ form = FormInit("add")
  /\ seen = NothingSeen
  /\ MoreAtRest

\* loadDashboardData over those rows, the clock running
NextDash ==
  \/ HomeStartLoad
  \/ HomeGetFoodsOk
  \/ HomeGetExercisesOk
  \/ HomeGetWeightsOk
  \/ HomeFetchFails
  \/ HomeTipOk
  \/ HomeFoodRecOk
  \/ HomeExerciseRecOk
  \/ HomeServiceFails
  \/ Tick

SpecDash == InitDash /\ [][NextDash]_vars

\* HomeScreen and WeightTrackingScreen of a user with up to MaxWeights weight
\* records, at instant 2
InitTrend ==
  /\ now = 2
  /\ MissionsAtRest
  /\ dbFoods = << >>
  /\ dbExercises = << >>
  /\ dbWeights \in SeqsUpTo(WeightRows, MaxWeights)
  /\ dbCurrentWeight = << 60 >>
  /\ home = HomeInit
  /\ track = TrackInit
  /\ form = FormInit("add")
  /\ seen = NothingSeen
  /\ MoreAtRest

\* the loads of both screens over those records
NextTrend ==
  \/ HomeStartLoad
  \/ HomeGetFoodsOk
  \/ HomeGetExercisesOk
  \/ HomeGetWeightsOk
  \/ HomeFetchFails
  \/ HomeTipOk
  \/ HomeFoodRecOk
  \/ HomeExerciseRecOk
  \/ HomeServiceFails
  \/ TrackStartLoad
  \/ TrackGetCurrentUserOk
  \/ TrackGetUserOk
  \/ TrackGetWeightsOk
  \/ TrackFetchFails

SpecTrend == InitTrend /\ [][NextTrend]_vars

\* AddExerciseScreen, or EditExerciseScreen for row 1 of the exercises table,
\* as mounted; the profile has a weight of 84 or none
InitForm ==
  /\ now = 0
  /\ MissionsAtRest
  /\ dbFoods = << >>
  /\ dbExercises \in
       {<< >>, << [type |-> "Walking", duration |-> << 2 >>,
                   caloriesBurned |-> << 8 >>, date |-> 0] >>}
  /\ dbWeights = << >>
  /\ dbCurrentWeight \in {Null, << 84 >>}
  /\ home = HomeInit
  /\ track = TrackInit
  /\ form \in {FormInit("add"), FormInit("edit")}
  /\ seen = NothingSeen
  /\ MoreAtRest

\* the user filling in and saving the form
NextForm ==
  \/ FormGetCurrentUserOk
  \/ FormGetUserOk
  \/ FormGetExerciseOk
  \/ FormLoadFails
  \/ \E type \in ExerciseTypes : SelectExerciseType(type)
  \/ \E text \in TextsOf(form.duration, DurationKeys) : EditDuration(text)
  \/ \E text \in TextsOf(form.caloriesBurned, CalorieKeys) : EditCalories(text)
  \/ ToggleStopwatchMode
  \/ ToggleStopwatch
  \/ ResetStopwatch
  \/ StopwatchTick
  \/ SaveRefused
  \/ SaveExercise
  \/ ExerciseWriteOk
  \/ ExerciseWriteFails

SpecForm == InitForm /\ [][NextForm]_vars

\* ============================================ JournalScreen / ExerciseScreen
\* The two screens are the same code over the tables foods and exercises.
\* dateList is kept as the set of its dates; the sort of the entries by time
\* is not represented (a row has no time here).
Table(screen) == IF screen = "journal" THEN dbFoods ELSE dbExercises

RemoveAt(s, i) == SubSeq(s, 1, i - 1) \o SubSeq(s, i + 1, Len(s))

\* onPress={() => setSelectedDate(item)} on an item of dateList: the render
\* with the new date runs the effect [userId, selectedDate], which calls
\* loadFoodEntries() / loadExerciseEntries() of that render
SelectDate(d) ==
  /\ d \in journal.dateList
  /\ d # journal.selectedDate
  /\ Len(journal.inFlight) < MaxInFlight
  /\ journal' = [journal EXCEPT !.selectedDate = d, !.inFlight = Append(@, d)]
  /\ UNCHANGED << now, missionVars, stores, home, track, form, seen,
                  profile, dbLogoutHistory, premium, dbCode, dbIsPremium >>

\* onRefresh: await loadFoodEntries() of the current render
ListRefresh ==
  /\ Len(journal.inFlight) < MaxInFlight
  /\ journal' = [journal EXCEPT !.inFlight = Append(@, journal.selectedDate)]
  /\ UNCHANGED << now, missionVars, stores, home, track, form, seen,
                  profile, dbLogoutHistory, premium, dbCode, dbIsPremium >>

\* await getData(table, 'userId', userId) of load i answers the rows:
\* setDateList(dates); setFoodEntries(the rows whose date is the selectedDate
\* of the render that started the load)
ListLoadOk(i) ==
  /\ i \in DOMAIN journal.inFlight
  /\ LET data == Table(journal.screen) IN
       journal' = [journal EXCEPT
         !.dateList = {data[k].date : k \in DOMAIN data},
         !.entries = Dated(data, journal.inFlight[i]),
         !.inFlight = RemoveAt(@, i)]
  /\ UNCHANGED << now, missionVars, stores, home, track, form, seen,
                  profile, dbLogoutHistory, premium, dbCode, dbIsPremium >>

\* getData of load i answers { error }: throw, console.error, finally
ListLoadFails(i) ==
  /\ i \in DOMAIN journal.inFlight
  /\ journal' = [journal EXCEPT !.inFlight = RemoveAt(@, i)]
  /\ seen' = [seen EXCEPT !.listFailed = TRUE]
  /\ UNCHANGED << now, missionVars, stores, home, track, form,
                  profile, dbLogoutHistory, premium, dbCode, dbIsPremium >>

\* JournalScreen over a foods table, or ExerciseScreen over an exercises
\* table, mounted on day 0 with its first load in flight
InitList ==
  /\ now = 0
  /\ MissionsAtRest
  /\ \/ /\ journal = JournalInit("journal", UtcDate(now))
        /\ dbFoods \in SeqsUpTo(FoodRows, MaxDashRows)
        /\ FoodsInOrder(dbFoods)
        /\ dbExercises = << >>
     \/ /\ journal = JournalInit("exercise", UtcDate(now))
        /\ dbFoods = << >>
        /\ dbExercises \in SeqsUpTo(ExerciseRows, MaxDashRows)
        /\ ExercisesInOrder(dbExercises)
  /\ dbWeights = << >>
  /\ dbCurrentWeight = Null
  /\ home = HomeInit
  /\ track = TrackInit
  /\ form = FormInit("add")
  /\ seen = NothingSeen
  /\ profile = ProfileInit
  /\ dbLogoutHistory = << >>
  /\ premium = [u \in Users |-> StoreInit(u)]
  /\ dbCode = CodeRow(TheCode)
  /\ dbIsPremium = [u \in Users |-> FALSE]

\* the user picking dates and pulling to refresh while loads are in flight
NextList ==
  \/ \E d \in RowDates : SelectDate(d)
  \/ ListRefresh
  \/ \E i \in 1..MaxInFlight : ListLoadOk(i)
  \/ \E i \in 1..MaxInFlight : ListLoadFails(i)

SpecList == InitList /\ [][NextList]_vars

\* ============================================================ ProfileScreen
\* A logout entry { date, device: 'Mobile App' } is its date.  Signing in
\* takes time: the clock is one instant further when ProfileScreen is mounted.
profileFrame == << missionVars, stores, home, track, form, journal,
                   premium, dbCode, dbIsPremium >>

\* the user signs in and ProfileScreen is mounted: useState initial values;
\* useFocusEffect: loadUserData() awaits getCurrentUser()
Login ==
  /\ profile.pc = "signedOut"
  /\ Len(seen.logouts) < MaxLogouts
  /\ now' = now + 1
  /\ profile' = [ProfileInit EXCEPT !.pc = "getCurrentUser"]
  /\ UNCHANGED << profileFrame, seen, dbLogoutHistory >>

\* await getCurrentUser() answers the user: setUserId; getData('users', ...)
ProfileGetCurrentUserOk ==
  /\ profile.pc = "getCurrentUser"
  /\ profile' = [profile EXCEPT !.pc = "getUser", !.userId = TheUser]
  /\ UNCHANGED << now, profileFrame, seen, dbLogoutHistory >>

\* await getData('users', 'id', ...) answers the row: setUserData(userData[0])
ProfileGetUserOk ==
  /\ profile.pc = "getUser"
  /\ profile' = [profile EXCEPT !.pc = "idle", !.userData = << dbLogoutHistory >>]
  /\ UNCHANGED << now, profileFrame, seen, dbLogoutHistory >>

\* a call of loadUserData answers { error }: throw, Alert, finally
ProfileLoadFails ==
  /\ profile.pc \in {"getCurrentUser", "getUser"}
  /\ profile' = [profile EXCEPT !.pc = "idle"]
  /\ seen' = [seen EXCEPT !.profileFailed = TRUE]
  /\ UNCHANGED << now, profileFrame, dbLogoutHistory >>

\* handleLogout: with userId and userData the new history is built from
\* userData.logoutHistory and updateData('users', ...) is awaited; without
\* them signOut() is awaited at once
HandleLogout ==
  /\ profile.pc = "idle"
  /\ profile' =
       IF profile.userId # NoUser /\ profile.userData # Null
         THEN [profile EXCEPT
                 !.pc = "updateHistory", !.date = now,
                 !.newLogoutHistory = KeepLast(Append(profile.userData[1], now))]
         ELSE [profile EXCEPT !.pc = "signOut", !.date = now]
  /\ UNCHANGED << now, profileFrame, seen, dbLogoutHistory >>

\* await updateData('users', userId, { logoutHistory }) stores the history;
\* signOut() is awaited
UpdateHistoryOk ==
  /\ profile.pc = "updateHistory"
  /\ dbLogoutHistory' = profile.newLogoutHistory
  /\ profile' = [profile EXCEPT !.pc = "signOut"]
  /\ UNCHANGED << now, profileFrame, seen >>

\* updateData answers { error }: the result is not looked at
UpdateHistoryFails ==
  /\ profile.pc = "updateHistory"
  /\ profile' = [profile EXCEPT !.pc = "signOut"]
  /\ seen' = [seen EXCEPT !.profileFailed = TRUE]
  /\ UNCHANGED << now, profileFrame, dbLogoutHistory >>

\* await signOut() succeeds: navigation.reset to Login, the screen is gone.
\* seen.logouts lists the dates of the logouts so far.
SignOutOk ==
  /\ profile.pc = "signOut"
  /\ profile' = ProfileInit
  /\ seen' = [seen EXCEPT !.logouts = Append(@, profile.date)]
  /\ UNCHANGED << now, profileFrame, dbLogoutHistory >>

\* signOut() answers { error }: throw, Alert, the user stays signed in
SignOutFails ==
  /\ profile.pc = "signOut"
  /\ profile' = [profile EXCEPT !.pc = "idle"]
  /\ seen' = [seen EXCEPT !.profileFailed = TRUE]
  /\ UNCHANGED << now, profileFrame, dbLogoutHistory >>

\* nobody signed in, the user record without logout history
InitProfile ==
  /\ now = 0
  /\ MissionsAtRest
  /\ AppAtRest

\* sign in, load, log out, again and again; calls can fail
NextProfile ==
  \/ Login
  \/ ProfileGetCurrentUserOk
  \/ ProfileGetUserOk
  \/ ProfileLoadFails
  \/ HandleLogout
  \/ UpdateHistoryOk
  \/ UpdateHistoryFails
  \/ SignOutOk
  \/ SignOutFails

SpecProfile == InitProfile /\ [][NextProfile]_vars

\* ============================================ StoreScreen: premium codes
storeFrame == << now, missionVars, stores, home, track, form, journal, profile,
                 dbLogoutHistory >>

\* the premium code TextInput: onChangeText={setPremiumCode}
EditPremiumCode(u, text) ==
  /\ premium[u].pc = "idle" /\ premium[u].showPremiumModal
  /\ text # premium[u].premiumCode
  /\ premium' = [premium EXCEPT ![u].premiumCode = text]
  /\ UNCHANGED << storeFrame, seen, dbCode, dbIsPremium >>

\* handleActivatePremium with an empty code: Alert, return
ActivateRefused(u) ==
  /\ premium[u].pc = "idle" /\ premium[u].showPremiumModal
  /\ premium[u].premiumCode = ""
  /\ premium[u].alert # "enterPremiumCode"
  /\ premium' = [premium EXCEPT ![u].alert = "enterPremiumCode"]
  /\ seen' = [seen EXCEPT !.after = @ \ {u}]
  /\ UNCHANGED << storeFrame, dbCode, dbIsPremium >>

\* handleActivatePremium: setActivatingPremium(true); getData('premium_codes',
\* 'code', premiumCode) is awaited.  seen.after holds the users whose call in
\* progress, or last call, began after an activation with TheCode succeeded.
ActivateStart(u) ==
  /\ premium[u].pc = "idle" /\ premium[u].showPremiumModal
  /\ premium[u].premiumCode # ""
  /\ premium' = [premium EXCEPT ![u].pc = "getCode", ![u].activatingPremium = TRUE,
                                ![u].alert = "", ![u].code = premium[u].premiumCode]
  /\ seen' = [seen EXCEPT !.after =
                IF seen.granted /\ premium[u].premiumCode = TheCode
                  THEN @ \cup {u} ELSE @ \ {u}]
  /\ UNCHANGED << storeFrame, dbCode, dbIsPremium >>

\* the call is over: finally { setActivatingPremium(false) }
Ended(s, alert) == [s EXCEPT !.pc = "idle", !.activatingPremium = FALSE, !.alert = alert]

\* await getData answers: no row, or a row that is used: Alert, return;
\* otherwise updateData('premium_codes', premiumCodeData.code, { used: true,
\* usedBy, usedAt }) is awaited
GetCodeOk(u) ==
  /\ premium[u].pc = "getCode"
  /\ premium' = [premium EXCEPT ![u] =
       IF premium[u].code # dbCode.code THEN Ended(@, "invalidPremiumCode")
       ELSE IF CodeUsed(dbCode) THEN Ended(@, "premiumCodeAlreadyUsed")
       ELSE [@ EXCEPT !.pc = "updateCode"]]
  /\ UNCHANGED << storeFrame, seen, dbCode, dbIsPremium >>

\* await updateData('premium_codes', code, ...) is answered without error:
\* update(...).eq('id', code) has changed the rows whose id is the code;
\* with a userId updateData('users', ...) is awaited, without one the call ends
UpdateCodeOk(u) ==
  /\ premium[u].pc = "updateCode"
  /\ dbCode' = IF dbCode.id = premium[u].code
                 THEN [dbCode EXCEPT !.used = TRUE, !.usedBy = premium[u].userId]
                 ELSE dbCode
  /\ premium' = [premium EXCEPT ![u] =
       IF premium[u].userId # NoUser THEN [@ EXCEPT !.pc = "updateUser"]
       ELSE Ended(@, "")]
  /\ UNCHANGED << storeFrame, seen, dbIsPremium >>

\* await updateData('users', userId, { isPremium: true, ... }) succeeds:
\* setIsPremium(true); setShowPremiumModal(false); setPremiumCode(''); Alert
UpdateUserOk(u) ==
  /\ premium[u].pc = "updateUser"
  /\ dbIsPremium' = [dbIsPremium EXCEPT ![u] = TRUE]
  /\ premium' = [premium EXCEPT ![u] =
       [Ended(@, "premiumActivated") EXCEPT !.isPremium = TRUE,
          !.showPremiumModal = FALSE, !.premiumCode = ""]]
  /\ seen' = [seen EXCEPT !.granted = TRUE]
  /\ UNCHANGED << storeFrame, dbCode >>

\* a call of handleActivatePremium answers { error }: throw, Alert, finally
ActivateCallFails(u) ==
  /\ premium[u].pc \in {"getCode", "updateCode", "updateUser"}
  /\ premium' = [premium EXCEPT ![u] = Ended(@, "premiumActivationError")]
  /\ UNCHANGED << storeFrame, seen, dbCode, dbIsPremium >>

\* the StoreScreens of two users, one of them possibly without a loaded
\* user, and the row of TheCode under either of its ids
InitStore ==
  /\ now = 0
  /\ MissionsAtRest
  /\ dbFoods = << >>
  /\ dbExercises = << >>
  /\ dbWeights = << >>
  /\ dbCurrentWeight = Null
  /\ home = HomeInit
  /\ track = TrackInit
  /\ form = FormInit("add")
  /\ seen = NothingSeen
  /\ journal = JournalInit("journal", 0)
  /\ profile = ProfileInit
  /\ dbLogoutHistory = << >>
  /\ premium \in {[u \in Users |-> StoreInit(IF u \in S THEN u ELSE NoUser)] :
                    S \in {Users, {TheUser}}}
  /\ dbCode \in {CodeRow(id) : id \in CodeIds}
  /\ dbIsPremium = [u \in Users |-> FALSE]

\* the two users typing codes and activating them; calls can fail
NextStore ==
  \/ \E u \in Users, text \in PremiumCodes : EditPremiumCode(u, text)
  \/ \E u \in Users : ActivateRefused(u)
  \/ \E u \in Users : ActivateStart(u)
  \/ \E u \in Users : GetCodeOk(u)
  \/ \E u \in Users : UpdateCodeOk(u)
  \/ \E u \in Users : UpdateUserOk(u)
  \/ \E u \in Users : ActivateCallFails(u)

SpecStore == InitStore /\ [][NextStore]_vars


\* ================================= WeightTrackingScreen: addWeightRecord
\* The texts the weight field is given.  parseFloat of a text without a
\* decimal point or an exponent reads what parseInt reads: a sign and the
\* digits up to the first other character.
WeightTexts == {<< >>, << "-" >>, << "6" >>, << "6", "6" >>, << "6", "-" >>}
MaxAdds == 1            \* addWeightRecord calls that reach the store, per behaviour
ParseFloat(s) == ParseInt(s)

\* the rows the table holds before the screen is opened at instant
\* MaxNow - 1: dated one instant earlier, at that instant, one instant later
AddRows == {[date |-> d, weight |-> 6] : d \in {MaxNow - 2, MaxNow - 1, MaxNow}}


\* `if (loading && !refreshing)` renders the loading view instead of the screen
Visible == ~(track.loading /\ ~track.refreshing)

\* the screen takes a touch: it is rendered and no Alert of addWeightRecord
\* is in front of it
CanPress == Visible /\ track.addAlert = ""

\* onRefresh: setRefreshing(true); await loadData() (the list is behind the
\* modal while that is shown)
TrackRefresh ==
  /\ CanPress /\ ~track.showAddWeightModal
  /\ track.pc = "idle"
  /\ track' = [track EXCEPT !.pc = "getCurrentUser", !.loading = TRUE,
                            !.refreshing = TRUE, !.alert = FALSE]
  /\ seen' = [seen EXCEPT !.trackFailed = FALSE]
  /\ UNCHANGED << now, missionVars, moreVars, stores, home, form >>

\* onPress={() => setShowAddWeightModal(true)}
OpenAddModal ==
  /\ CanPress /\ ~track.showAddWeightModal
  /\ track' = [track EXCEPT !.showAddWeightModal = TRUE]
  /\ UNCHANGED << now, missionVars, moreVars, stores, home, form, seen >>

\* onRequestClose / the close button: setShowAddWeightModal(false)
CloseAddModal ==
  /\ CanPress /\ track.showAddWeightModal
  /\ track' = [track EXCEPT !.showAddWeightModal = FALSE]
  /\ UNCHANGED << now, missionVars, moreVars, stores, home, form, seen >>

\* the weight TextInput: onChangeText={setNewWeight}
EditNewWeight(text) ==
  /\ CanPress /\ track.showAddWeightModal
  /\ text # track.newWeight
  /\ track' = [track EXCEPT !.newWeight = text]
  /\ UNCHANGED << now, missionVars, moreVars, stores, home, form, seen >>

\* the Alert of addWeightRecord is dismissed
DismissAddAlert ==
  /\ track.addAlert # ""
  /\ track' = [track EXCEPT !.addAlert = ""]
  /\ UNCHANGED << now, missionVars, moreVars, stores, home, form, seen >>

\* `!newWeight.trim() || isNaN(parseFloat(newWeight))`
WeightRefused(newWeight) == newWeight = << >> \/ ParseFloat(newWeight).nan

\* the save button (disabled while addingWeight) with a text that is
\* refused: Alert invalidWeightError, return
AddWeightInvalid ==
  /\ CanPress /\ track.showAddWeightModal /\ ~track.addingWeight
  /\ WeightRefused(track.newWeight)
  /\ track' = [track EXCEPT !.addAlert = "invalidWeightError"]
  /\ UNCHANGED << now, missionVars, moreVars, stores, home, form, seen >>

\* the save button with a weight: setAddingWeight(true), and with a userId
\* insertData('weight_records', { userId, weight, date: currentDate }) is
\* awaited (without a userId the call changes nothing)
AddWeightStart ==
  /\ CanPress /\ track.showAddWeightModal /\ ~track.addingWeight
  /\ ~WeightRefused(track.newWeight)
  /\ track.userId # NoUser
  /\ seen.adds < MaxAdds
  /\ track' = [track EXCEPT
        !.addingWeight = TRUE, !.add = "insert",
        !.call = [weight |-> ParseFloat(track.newWeight).n, date |-> now,
                  weightRecords |-> track.weightRecords,
                  userData |-> track.userData]]
  /\ seen' = [seen EXCEPT !.adds = @ + 1]
  /\ UNCHANGED << now, missionVars, moreVars, stores, home, form >>

\* await insertData answers without error: the row is in the table;
\* updateData('users', userId, { currentWeight: weight }) is awaited
AddInsertOk ==
  /\ track.add = "insert"
  /\ dbWeights' = Append(dbWeights, [date |-> track.call.date,
                                      weight |-> track.call.weight])
  /\ track' = [track EXCEPT !.add = "updateUser"]
  /\ UNCHANGED << now, missionVars, moreVars, dbFoods, dbExercises, dbCurrentWeight,
                  home, form, seen >>

AddFailedStillAdding(t, alert) ==
  [t EXCEPT !.add = "idle", !.call = NoCall, !.addAlert = alert]

\* catch: Alert; finally: setAddingWeight(false)
AddFailed(t, alert) ==
  [t EXCEPT !.add = "idle", !.addingWeight = FALSE, !.call = NoCall,
            !.addAlert = alert]

\* await insertData answers { error }: throw
AddInsertFails ==
  /\ track.add = "insert"
  /\ track' = AddFailed(track, "addWeightError")
  /\ UNCHANGED << now, missionVars, moreVars, stores, home, form, seen >>

\* await updateData('users', ...) returns, stored or not (its answer is not
\* looked at): the local update of lines 191-230 with the weightRecords and
\* userData of the closure, then finally
AddUpdateUserDone(stored) ==
  /\ track.add = "updateUser"
  /\ dbCurrentWeight' = IF stored THEN << track.call.weight >> ELSE dbCurrentWeight
  /\ LET call == track.call
         newRecord == [date |-> call.date, weight |-> call.weight]
     IN track' = [track EXCEPT
          !.add = "idle", !.addingWeight = FALSE, !.call = NoCall,
          !.weightRecords = << newRecord >> \o call.weightRecords,
          !.userData = IF call.userData = Null THEN @
                       ELSE << [call.userData[1] EXCEPT
                                  !.currentWeight = << call.weight >>] >>,
          !.weightTrend = IF call.weightRecords # << >>
                            THEN TrendOf(<< newRecord >> \o call.weightRecords)
                            ELSE @,
          !.showAddWeightModal = FALSE,
          !.newWeight = << >>]
  /\ UNCHANGED << now, missionVars, moreVars, dbFoods, dbExercises, dbWeights,
                  home, form, seen >>

\* WeightTrackingScreen is opened by a user with at most one weight record
\* at instant MaxNow - 1
InitWeight ==
  /\ now = MaxNow - 1
  /\ MissionsAtRest
  /\ dbFoods = << >>
  /\ dbExercises = << >>
  /\ dbWeights \in {<< >>} \cup {<< r >> : r \in AddRows}
  /\ dbCurrentWeight = << 6 >>
  /\ home = HomeInit
  /\ track = TrackInit
  /\ form = FormInit("add")
  /\ seen = NothingSeen
  /\ MoreAtRest

\* the loads of the screen, the add-weight modal and addWeightRecord, the
\* clock running
NextWeight ==
  \/ TrackStartLoad
  \/ TrackGetCurrentUserOk
  \/ TrackGetUserOk
  \/ TrackGetWeightsOk
  \/ TrackFetchFails
  \/ TrackRefresh
  \/ OpenAddModal
  \/ CloseAddModal
  \/ \E text \in WeightTexts : EditNewWeight(text)
  \/ DismissAddAlert
  \/ AddWeightInvalid
  \/ AddWeightStart
  \/ AddInsertOk
  \/ AddInsertFails
  \/ \E stored \in BOOLEAN : AddUpdateUserDone(stored)
  \/ Tick

SpecWeight == InitWeight /\ [][NextWeight]_vars

\* ================================================================== claims
Quiet == \A t \in Tasks : stack[t] = << >>

SameMissionHitTwice ==
  /\ Len(hist) = 2
  /\ hist[1].mid = hist[2].mid
  /\ hist[1].hit /\ hist[2].hit
  /\ ~hist[1].preDone
  /\ hist[2].f1 = 0

\* C1: two updateMissionProgress calls in a row for one mission that was not
\* completed, both with newProgress >= target and every remote call answered:
\* the first call adds mission.points to the stored points, the second call
\* leaves the stored points as they are.
C1_CreditOnFirstCallOnly ==
  SameMissionHitTwice =>
    /\ hist[1].postPts = hist[1].prePts + hist[1].pts
    /\ hist[2].postPts = hist[2].prePts

C1_Witness ==
  /\ SameMissionHitTwice
  /\ hist[2].postPts = hist[1].prePts + hist[1].pts
  /\ credits[hist[1].mid] = 1
  /\ Quiet

\* C2: over sequential updateMissionProgress calls on one mission, with any
\* newProgress values and every remote call answered, the mission's points are
\* written to the user's points at most once.
C2_CreditedAtMostOnce ==
  faults = 0 => \A id \in 1..MaxUpdId : credits[id] <= 1

\* C3: once the stored completed flag of a mission is true, no step makes it
\* false again.
C3_CompletedIsTerminal ==
  [][\A id \in DOMAIN dbMissions :
       dbMissions[id].completed => dbMissions'[id].completed]_vars

FocusRunning == run["focus"].kind = "load"

NoGeneration(t) ==
  \A k \in DOMAIN stack[t] : stack[t][k].fn # "generateMissions"

\* C4: a loadData run of the same day as an earlier run that finished with
\* every remote call answered inserts no mission and leaves the set of stored
\* mission ids as that run left it; the earlier run leaves a daily and a weekly
\* mission that expire no earlier than the start of that day, and a run that
\* starts with such missions in the store never starts a generation.
C4_GenerationIdempotent ==
  /\ (Len(loads) = 2 /\ loads[1].clean /\ loads[2].clean /\ loads[1].d0 = loads[2].d1)
       => (loads[2].ins = 0 /\ loads[2].n1 = loads[1].n1)
  /\ \A k \in DOMAIN loads :
       (loads[k].clean /\ loads[k].d0 = loads[k].d1) => loads[k].gen
  /\ (FocusRunning /\ run["focus"].had /\ run["focus"].d0 = StartOfDay(now)
        /\ faults = run["focus"].f0)
       => (run["focus"].ins = 0 /\ NoGeneration("focus")
           /\ Len(dbMissions) = run["focus"].n0)

C4_Witness ==
  /\ Len(loads) = 2 /\ loads[1].clean /\ loads[2].clean
  /\ loads[1].d0 = loads[2].d1
  /\ loads[1].n0 = 0 /\ loads[1].ins > 0
  /\ loads[2].ins = 0 /\ loads[2].n1 = loads[1].n1

\* C5: a loadData run that starts with no stored mission and has every remote
\* call answered ends with exactly 3 daily and exactly 3 weekly missions stored.
C5_ThreeDailyThreeWeekly ==
  \A k \in DOMAIN loads :
    (loads[k].n0 = 0 /\ loads[k].clean) => (loads[k].daily = 3 /\ loads[k].weekly = 3)

\* C6: when checkAndGenerateMissions returns, in a run of the current day with
\* every remote call answered, each of the types daily and weekly has a stored
\* mission whose expiresAt is later than the current instant.
C6_UnexpiredMissionOfEachType ==
  (cgRet /\ FocusRunning /\ run["focus"].d0 = StartOfDay(now)
     /\ faults = 0 /\ ~insertOutage)
    => \A type \in {"daily", "weekly"} :
         \E i \in DOMAIN dbMissions :
           dbMissions[i].type = type /\ dbMissions[i].expiresAt > now

\* C7: an updateMissionProgress call in which a write failed leaves the stored
\* mission and the stored points as they were before the call, and when no
\* call is in progress no mission is stored as completed without its points
\* having been written to the user.
C7_NoPartialCredit ==
  /\ \A k \in DOMAIN hist :
       hist[k].wfail => /\ hist[k].postPts = hist[k].prePts
                        /\ hist[k].postDone = hist[k].preDone
                        /\ hist[k].postPr = hist[k].prePr
  /\ Quiet => \A id \in 1..MaxUpdId : dbMissions[id].completed => credits[id] >= 1

\* C8: when every insert into the missions table fails, a loadData run attempts
\* the insert of each template at most once.
C8_NoRetry ==
  insertOutage => \A x \in Titles : attempts[x] <= 1

\* C9: no step lowers the stored user points.
C9_PointsMonotone == [][dbPoints' >= dbPoints]_vars

Observed(u) == stack[u][1]

\* C10: every updateMissionProgress call that observed completed = false and
\* reports newProgress >= target performs the points write, whatever the store
\* holds by then; two overlapping calls for one mission can both do so.
C10_RaceBothCredit ==
  \A u \in Updaters :
    (run[u].kind = "update" /\ Observed(u).pc = "reload"
       /\ Observed(u).completed /\ ~Observed(u).mission.completed)
      => run[u].awarded

C10_Witness ==
  /\ \A u \in Updaters :
       /\ run[u].kind = "update" /\ Observed(u).pc = "reload"
       /\ Observed(u).completed /\ ~Observed(u).mission.completed
       /\ run[u].awarded
  /\ Observed("u1").mid = Observed("u2").mid
  /\ credits[Observed("u1").mid] = 2

\* C11: an updateMissionProgress call made after the mission's expiresAt
\* (now > expiresAt) on a mission whose stored progress is below the target
\* leaves the mission not completed and the stored points as they were,
\* whatever newProgress it reports.
C11_ExpiredAwardsNothing ==
  \A k \in DOMAIN hist :
    (/\ now > dbMissions[hist[k].mid].expiresAt
     /\ hist[k].prePr < dbMissions[hist[k].mid].target)
      => (~hist[k].postDone /\ hist[k].postPts = hist[k].prePts)

\* rows of the store created at an instant that is not a local midnight
CreatedMidDay(type) ==
  {i \in DOMAIN dbMissions :
     dbMissions[i].type = type /\ dbMissions[i].createdAt % TicksPerDay # 0}

LifeOf(type) == IF type = "daily" THEN TicksPerDay ELSE DaysPerWeek * TicksPerDay

\* C12 (as stated): every generated mission is stored with progress = 0,
\* completed = false and expiresAt equal to its creation instant plus 1 day
\* (daily) or plus 7 days (weekly).
C12_ExpiresOneLifeAfterCreation ==
  \A i \in DOMAIN dbMissions :
    /\ dbMissions[i].progress = 0
    /\ ~dbMissions[i].completed
    /\ dbMissions[i].expiresAt = dbMissions[i].createdAt + LifeOf(dbMissions[i].type)

\* C12 (amended): every generated mission is stored with progress = 0,
\* completed = false and expiresAt at a local midnight: the first midnight
\* after the creation instant for a daily mission (at most 1 day later), the
\* seventh for a weekly mission (more than 6 and at most 7 days later).
C12_ExpiresAtMidnight ==
  \A i \in DOMAIN dbMissions :
    /\ dbMissions[i].progress = 0
    /\ ~dbMissions[i].completed
    /\ dbMissions[i].expiresAt % TicksPerDay = 0
    /\ dbMissions[i].expiresAt > dbMissions[i].createdAt
         + LifeOf(dbMissions[i].type) - TicksPerDay
    /\ dbMissions[i].expiresAt <= dbMissions[i].createdAt + LifeOf(dbMissions[i].type)

C12_Witness ==
  /\ CreatedMidDay("daily") # {}
  /\ CreatedMidDay("weekly") # {}
  /\ Quiet

\* ------------------------------------------------------- dashboard claims
\* the indices of the rows dated d
OnDate(rows, d) == {i \in DOMAIN rows : rows[i].date = d}

\* the sum of the values of column f that are present in the rows I
RECURSIVE SumPresent(_, _, _)
SumPresent(rows, f, I) ==
  IF I = {} THEN 0
  ELSE LET i == CHOOSE j \in I : TRUE
       IN (IF rows[i][f] = Null THEN 0 ELSE rows[i][f][1])
            + SumPresent(rows, f, I \ {i})

\* C13: after loadDashboardData has aggregated food and exercise rows for a
\* date today, caloriesIn is the sum of the calories of the foods dated today,
\* caloriesOut the sum of caloriesBurned of the exercises dated today,
\* netCalories their difference, and calorieStatus is surplus exactly when
\* caloriesIn > caloriesOut (deficit otherwise, equality included).
C13_TodayTotals ==
  seen.aggregated =>
    /\ home.caloriesIn =
         SumPresent(seen.foods, "calories", OnDate(seen.foods, seen.today))
    /\ home.caloriesOut =
         SumPresent(seen.exercises, "caloriesBurned", OnDate(seen.exercises, seen.today))
    /\ home.netCalories = home.caloriesIn - home.caloriesOut
    /\ home.calorieStatus \in {"surplus", "deficit"}
    /\ home.calorieStatus = "surplus" <=> home.caloriesIn > home.caloriesOut

C13_Witness ==
  /\ seen.aggregated
  /\ home.caloriesIn = 300 /\ home.caloriesOut = 300
  /\ home.netCalories = 0
  /\ home.calorieStatus = "deficit"

\* the calendar date at the instant the weekly series and the macro averages
\* were computed
SeriesDay == UtcDate(seen.at)

\* C14: each of the two weekly datasets has exactly 7 elements whatever the
\* number of rows; element i (0-based, oldest first) is the sum for the
\* calendar date today - 6 + i, and 0 for a date without rows.
C14_WeeklySeries ==
  seen.aggregated =>
    /\ Len(home.weeklyCaloriesData.in) = 7
    /\ Len(home.weeklyCaloriesData.out) = 7
    /\ \A i \in 0..6 :
         /\ home.weeklyCaloriesData.in[i + 1] =
              SumPresent(seen.foods, "calories",
                         OnDate(seen.foods, SeriesDay - 6 + i))
         /\ home.weeklyCaloriesData.out[i + 1] =
              SumPresent(seen.exercises, "caloriesBurned",
                         OnDate(seen.exercises, SeriesDay - 6 + i))
         /\ OnDate(seen.foods, SeriesDay - 6 + i) = {}
              => home.weeklyCaloriesData.in[i + 1] = 0

C14_Witness ==
  /\ seen.aggregated
  /\ Len(seen.foods) = 2
  /\ home.weeklyCaloriesData.in[1] = 800
  /\ \A k \in 2..7 : home.weeklyCaloriesData.in[k] = 0
  /\ \A k \in 1..7 : home.weeklyCaloriesData.out[k] = 0

\* the rows dated within the 7 calendar days that end on day d
InTrailingWeek(rows, d) == {i \in DOMAIN rows : d - 6 <= rows[i].date /\ rows[i].date <= d}

Macros == {"protein", "fat", "carbs"}

\* C15: each macro average is the sum of the macro over exactly the foods
\* dated within the trailing 7 days ending today (inclusive), divided by 7
\* (shown rounded to the nearest integer), 0 when there is no such food; foods
\* dated before the window or after today contribute nothing.  (Checked for
\* loads that aggregate at an instant other than the exact UTC midnight.)
C15_MacroAverages ==
  (seen.aggregated /\ seen.at % TicksPerDay # 0) =>
    \A f \in Macros :
      home.macroData[f] =
        Round(SumPresent(seen.foods, f, InTrailingWeek(seen.foods, SeriesDay)), 7)

\* the rows loadDashboardData averages: new Date(food.date) >= sevenDaysAgo
Averaged(rows, t) == {i \in DOMAIN rows : rows[i].date * TicksPerDay >= t - 7 * TicksPerDay}

\* C16: a row whose numeric column holds no value counts as 0: the totals of
\* today, the weekly series and the macro averages are the sums over the
\* values that are present.
C16_MissingCountsAsZero ==
  seen.aggregated =>
    /\ home.caloriesIn \in Int /\ home.caloriesOut \in Int /\ home.netCalories \in Int
    /\ \A k \in 1..7 :
         /\ home.weeklyCaloriesData.in[k] =
              SumPresent(seen.foods, "calories", OnDate(seen.foods, SeriesDay - 7 + k))
         /\ home.weeklyCaloriesData.out[k] =
              SumPresent(seen.exercises, "caloriesBurned",
                         OnDate(seen.exercises, SeriesDay - 7 + k))
    /\ SeriesDay = seen.today =>
         /\ home.caloriesIn = home.weeklyCaloriesData.in[7]
         /\ home.caloriesOut = home.weeklyCaloriesData.out[7]
    /\ \A f \in Macros :
         home.macroData[f] =
           Round(SumPresent(seen.foods, f, Averaged(seen.foods, seen.at)), 7)

C16_Witness ==
  /\ seen.aggregated
  /\ \E i, j \in DOMAIN seen.foods :
       /\ seen.foods[i].date = seen.today /\ seen.foods[j].date = seen.today
       /\ seen.foods[i].calories = Null /\ seen.foods[j].calories # Null
       /\ seen.foods[j].protein = Null
       /\ home.caloriesIn = seen.foods[j].calories[1]
       /\ home.macroData.protein = Round(seen.foods[i].protein[1], 7)
  /\ home.pc = "idle"

\* --------------------------------------------------------- trend claims
Trends == {"increasing", "decreasing", "stagnant"}

\* the two-point comparison of a newest weight with a second-newest weight
Compare(newest, second) ==
  IF newest < second THEN "decreasing"
  ELSE IF newest > second THEN "increasing"
  ELSE "stagnant"

\* trend is the comparison of the two most recent records of rows by date
TwoMostRecent(rows, trend) ==
  \E i, j \in DOMAIN rows :
    /\ i # j
    /\ rows[i].date >= rows[j].date
    /\ \A k \in DOMAIN rows \ {i, j} : rows[k].date <= rows[j].date
    /\ trend = Compare(rows[i].weight, rows[j].weight)

\* C17: after a load that fetched at least 2 weight records, the trend of the
\* weight-tracking screen and the trend of the home dashboard are the
\* comparison of the two most recent records by date: decreasing if the
\* newest weight is below the second-newest, increasing if above, stagnant if
\* equal; older records do not matter.
C17_TwoPointTrend ==
  /\ (seen.trackTrend /\ Len(seen.trackWeights) >= 2)
       => TwoMostRecent(seen.trackWeights, track.weightTrend)
  /\ (seen.homeTrend /\ Len(seen.homeWeights) >= 2)
       => TwoMostRecent(seen.homeWeights, home.weightTrend)

C17_Witness ==
  /\ seen.trackTrend /\ seen.homeTrend
  /\ Len(dbWeights) = 3
  /\ dbWeights[1].date < dbWeights[3].date /\ dbWeights[3].date < dbWeights[2].date
  /\ dbWeights[2].weight = dbWeights[3].weight
  /\ dbWeights[1].weight # dbWeights[2].weight
  /\ track.weightTrend = "stagnant" /\ home.weightTrend = "stagnant"
  /\ track.pc = "idle" /\ home.pc = "idle"

\* C18: after a load that fetched fewer than 2 weight records, the trend held
\* by the weight-tracking screen and the trend held by the home dashboard are
\* none of increasing, decreasing, stagnant.
C18_NoTrendBelowTwoRecords ==
  /\ (seen.trackTrend /\ Len(seen.trackWeights) < 2) => track.weightTrend \notin Trends
  /\ (seen.homeTrend /\ Len(seen.homeWeights) < 2) => home.weightTrend \notin Trends

\* ------------------------------------------------------ exercise claims
\* the row of the exercises table that the form wrote
Written == IF seen.savedBy = "add" THEN dbExercises[Len(dbExercises)] ELSE dbExercises[1]

\* C19: every exercise entry that saveExercise or updateExercise writes to
\* the store has an integer duration > 0; a save with an empty, zero,
\* negative or non-numeric duration writes nothing.
C19_WrittenDurationPositive ==
  seen.saved => (Written.duration # Null /\ Written.duration[1] > 0)

\* round(caloriesPerMinute(type) * duration * userWeight / 70)
Derived(type, duration, userWeight) ==
  (2 * CaloriesPerMinute[type] * duration * userWeight + 70) \div 140

\* C20 (as stated): the caloriesBurned that saveExercise stores equals
\* round(caloriesPerMinute(type) * duration * userWeight / 70) for the type,
\* duration and user weight in effect at the save, after any sequence of type
\* selections, duration edits, calorie-field edits, stopwatch ticks and mode
\* toggles.  (Checked for entries whose duration is a number.)
C20_StoredCaloriesDerived ==
  (seen.saved /\ seen.savedBy = "add" /\ Written.duration # Null) =>
    Written.caloriesBurned =
      << Derived(Written.type, Written.duration[1], seen.savedWeight) >>

\* C20 (amended): the caloriesBurned that saveExercise stores equals
\* round(caloriesPerMinute(type) * duration * userWeight / 70) for the type,
\* duration and user weight in effect at the save, after any sequence of type
\* selections, duration edits, stopwatch ticks and mode toggles, provided the
\* calories field was not typed into after its last recomputation; a value
\* typed after that is stored as typed.
C20_StoredCaloriesDerivedUnlessTyped ==
  (seen.saved /\ seen.savedBy = "add" /\ Written.duration # Null) =>
    IF seen.savedTyped
      THEN Written.caloriesBurned = << OrZero(ParseInt(form.caloriesBurned)) >>
      ELSE Written.caloriesBurned =
             << Derived(Written.type, Written.duration[1], seen.savedWeight) >>

C20_Witness ==
  /\ seen.saved /\ seen.savedBy = "add" /\ ~seen.savedTyped
  /\ form.isStopwatchMode /\ form.seconds >= 60
  /\ seen.savedWeight = 84
  /\ Written.type = "Running" /\ Written.duration = << 1 >>
  /\ Written.caloriesBurned = << 12 >>

\* ------------------------------------------------------------ list claims
\* C21: once no load of the food journal or of the exercise list is in
\* flight and none has failed, the entries on display are the rows of the
\* table dated the selected date, in whatever order the responses arrived.
C21_StaleResponsesDiscarded ==
  (journal.inFlight = << >> /\ ~seen.listFailed) =>
    journal.entries = Dated(Table(journal.screen), journal.selectedDate)

\* ------------------------------------------------------- failure claims
\* C22: when a fetch has failed during the load of the dashboard or of the
\* weight-tracking screen, the run is over (nothing of it is awaited, no
\* fetch is repeated) and the screen has shown an error alert.
C22_FetchFailureSurfaced ==
  /\ seen.homeFailed => (home.pc = "idle" /\ home.alert)
  /\ seen.trackFailed => (track.pc = "idle" /\ track.alert)

\* ------------------------------------------------------- prompt claim
\* C23: a loadData run of WeightTrackingScreen that has fetched the weight
\* records leaves the add-weight prompt open exactly when PromptDays full
\* days (PromptDays * TicksPerDay instants) or more have passed since the
\* date of the newest record.  The prompt is closed when the run starts and
\* nothing else opens it here.
C23_PromptAfterSevenFullDays ==
  (seen.trackTrend /\ track.pc = "idle" /\ ~seen.trackFailed /\ seen.trackWeights # << >>) =>
    (track.showAddWeightModal <=>
       now - SortNewestFirst(seen.trackWeights)[1].date >= PromptDays * TicksPerDay)

\* ------------------------------------------------------- logout claim
\* the n most recent of the logouts q, oldest first
MostRecent(q, n) == [i \in 1..(IF Len(q) < n THEN Len(q) ELSE n) |->
                       q[Len(q) - (IF Len(q) < n THEN Len(q) ELSE n) + i]]

\* C24: the stored logoutHistory never has more than 10 entries and is in
\* chronological order; after login / load / handleLogout cycles in which
\* no call failed it is the list of the 10 most recent logouts.
C24_LogoutHistoryLastTen ==
  /\ Len(dbLogoutHistory) <= 10
  /\ \A i \in 1..Len(dbLogoutHistory) - 1 : dbLogoutHistory[i] <= dbLogoutHistory[i + 1]
  /\ (profile.pc = "signedOut" /\ ~seen.profileFailed) =>
       dbLogoutHistory = MostRecent(seen.logouts, 10)

C24_Witness ==
  /\ profile.pc = "signedOut" /\ ~seen.profileFailed
  /\ Len(seen.logouts) = 11
  /\ Len(dbLogoutHistory) = 10
  /\ dbLogoutHistory[1] = seen.logouts[2]

\* ------------------------------------------------------- credit claim
\* C25: when two updateMissionProgress calls have completed the missions 1
\* and 2 and each has made its points write, the stored points have grown
\* by the points of both missions, however the two calls interleaved.
C25_NoCreditLostBetweenMissions ==
  (Quiet /\ calls = 2 /\ credits[1] = 1 /\ credits[2] = 1) =>
    dbPoints = dbMissions[1].points + dbMissions[2].points

\* ------------------------------------------------------- premium claims
\* C26: a handleActivatePremium call with TheCode that began after an
\* activation with that code had succeeded never gets past the check of the
\* code: it ends rejected as already used (or with the error of a failed
\* fetch) and grants nothing.
C26_CodeIsSingleUse ==
  \A u \in seen.after :
    /\ premium[u].pc \in {"idle", "getCode"}
    /\ premium[u].pc = "idle" =>
         premium[u].alert \in {"premiumCodeAlreadyUsed", "premiumActivationError"}

\* C30: whenever no handleActivatePremium call is in progress, the code is
\* marked used exactly if a user has been made premium (and then the user
\* it was used by), and activatingPremium is false on every StoreScreen.
C30_ActivationAllOrNothing ==
  (\A u \in Users : premium[u].pc = "idle") =>
    /\ dbCode.used <=> (\E u \in Users : dbIsPremium[u])
    /\ dbCode.used => (dbCode.usedBy \in Users /\ dbIsPremium[dbCode.usedBy])
    /\ \A u \in Users : ~premium[u].activatingPremium

\* C27: while loadDashboardData is between its two recommendation requests,
\* the calorieStatus it passed to getFoodRecommendations (and passes to
\* getExerciseRecommendations) is the status this run computed from its
\* caloriesIn and caloriesOut.
C27_RecommendationsUseThisRunsStatus ==
  home.pc = "exerciseRec" =>
    home.recommendedFor = CalorieStatus(home.caloriesIn, home.caloriesOut)

\* newest-first sequence of the weights of records
WeightsOf(records) == [i \in DOMAIN records |-> records[i].weight]

\* C28: when addWeightRecord ends with success, the local weightRecords hold
\* the weights that loadData would then show (the stored records sorted
\* newest first) and, with two or more stored records, weightTrend is the
\* trend loadData would then compute.
C28_LocalUpdateAgreesWithReload ==
  [][(track.add = "updateUser" /\ track'.add = "idle") =>
       LET sortedRecords == SortNewestFirst(dbWeights')
       IN /\ WeightsOf(track'.weightRecords) = WeightsOf(sortedRecords)
          /\ Len(sortedRecords) >= 2 => track'.weightTrend = TrendOf(sortedRecords)]_vars

\* C29: the step in which addWeightRecord raises its Alert (the text is
\* empty or holds no number, or the insert has failed) leaves the local
\* weightRecords, weightTrend and userData, the stored currentWeight and the
\* weight records alone, leaves the add-weight modal as it is, and
\* addingWeight is false after it.
C29_FailedAddChangesNothing ==
  [][(track.addAlert = "" /\ track'.addAlert # "") =>
       /\ track'.weightRecords = track.weightRecords
       /\ track'.weightTrend = track.weightTrend
       /\ track'.userData = track.userData
       /\ dbCurrentWeight' = dbCurrentWeight
       /\ dbWeights' = dbWeights
       /\ track'.showAddWeightModal = track.showAddWeightModal
       /\ ~track'.addingWeight]_vars

C29_Witness ==
  /\ track.addAlert = "addWeightError"
  /\ track.showAddWeightModal /\ ~track.addingWeight
  /\ track.newWeight = << "6", "6" >>
  /\ track.weightRecords # << >> /\ WeightsOf(track.weightRecords) = WeightsOf(dbWeights)
  /\ track.userData = << [currentWeight |-> dbCurrentWeight] >>
  /\ dbCurrentWeight = << 6 >>

====
